---- MODULE Spec2Model ----
\* Model of the gyw job-board backend: the role/auth middlewares, the
\* relational store with its unique and foreign-key constraints, and the
\* request handlers of the jobs and applications routers.  Every request is
\* a process whose steps are the handler's awaits: the middleware and the
\* synchronous prefix of the handler run in the step that receives the
\* request, and every awaited store call is one atomic step.
EXTENDS Integers, Sequences, FiniteSets, TLC

VARIABLES jwtSecret, users, applicants, jobs, applications, savedJobs,
          hiddenJobs, idSeq, reqs

vars == <<jwtSecret, users, applicants, jobs, applications, savedJobs,
          hiddenJobs, idSeq, reqs>>

store == <<users, applicants, jobs, applications, savedJobs, hiddenJobs, idSeq>>

\* ---------------------------------------------------------------- bounds
\* number of requests that can be in flight together
NumSlots == 2

Slots == 1..NumSlots

\* ---------------------------------------------------------------- values
None == "none"

Ids == {"u1", "u2", "u3"}

JobIds == {"j1", "j2", "j3"}

Roles == {"APPLICANT", "RECRUITER"}

ApplicationStatus == {"PENDING", "REVIEWED", "ACCEPTED", "REJECTED", "WITHDRAWN"}

\* a cookie: absent, or a JWT that is malformed, wrongly signed, expired or
\* verifiable; the payload may lack userId or role
NoToken == [kind |-> "absent", userId |-> None, role |-> None]

Token(k, u, r) == [kind |-> k, userId |-> u, role |-> r]

Tokens ==
    {NoToken, Token("malformed", None, None)}
        \cup {Token(k, u, r) : k \in {"badsig", "expired", "valid"},
                               u \in Ids \cup {None}, r \in Roles \cup {None}}

NoUser == [userId |-> None, role |-> None]

\* ------------------------------------------------------------------ text
\* a string is a sequence of one-character strings
UpperCase == <<"A", "B", "C", "D", "E", "F", "G", "H", "I", "J", "K", "L", "M",
               "N", "O", "P", "Q", "R", "S", "T", "U", "V", "W", "X", "Y", "Z">>

LowerCase == <<"a", "b", "c", "d", "e", "f", "g", "h", "i", "j", "k", "l", "m",
               "n", "o", "p", "q", "r", "s", "t", "u", "v", "w", "x", "y", "z">>

Digits == <<"0", "1", "2", "3", "4", "5", "6", "7", "8", "9">>

IsDigit(c) == \E i \in 1..10 : Digits[i] = c

DigitValue(c) == (CHOOSE i \in 1..10 : Digits[i] = c) - 1

ToLowerChar(c) ==
    IF \E i \in 1..26 : UpperCase[i] = c
    THEN LowerCase[CHOOSE i \in 1..26 : UpperCase[i] = c]
    ELSE c

ToLower(t) == [i \in 1..Len(t) |-> ToLowerChar(t[i])]

\* String.prototype.trim
RECURSIVE TrimLeft(_)
TrimLeft(t) == IF t # <<>> /\ Head(t) = " " THEN TrimLeft(Tail(t)) ELSE t

RECURSIVE TrimRight(_)
TrimRight(t) ==
    IF t # <<>> /\ t[Len(t)] = " " THEN TrimRight(SubSeq(t, 1, Len(t) - 1)) ELSE t

Trim(t) == TrimRight(TrimLeft(t))

\* String.prototype.split(',')
RECURSIVE Split(_)
Split(t) ==
    IF \E i \in 1..Len(t) : t[i] = ","
    THEN LET i == CHOOSE k \in 1..Len(t) :
                    t[k] = "," /\ \A m \in 1..(k - 1) : t[m] # ","
         IN <<SubSeq(t, 1, i - 1)>> \o Split(SubSeq(t, i + 1, Len(t)))
    ELSE <<t>>

\* .filter(Boolean) on strings
RECURSIVE FilterNonEmpty(_)
FilterNonEmpty(ts) ==
    IF ts = <<>> THEN <<>>
    ELSE IF Head(ts) = <<>> THEN FilterNonEmpty(Tail(ts))
    ELSE <<Head(ts)>> \o FilterNonEmpty(Tail(ts))

\* the substring test of Prisma's contains with mode: 'insensitive'
ContainsInsensitive(hay, needle) ==
    \E i \in 0..(Len(hay) - Len(needle)) :
        SubSeq(ToLower(hay), i + 1, i + Len(needle)) = ToLower(needle)

\* --------------------------------------------------------------- numbers
\* a JavaScript number: an integer or NaN
NaN == [nan |-> TRUE, v |-> 0]

Num(n) == [nan |-> FALSE, v |-> n]

MathMax(a, b) ==
    IF a.nan \/ b.nan THEN NaN ELSE IF a.v >= b.v THEN a ELSE b

MathMin(a, b) ==
    IF a.nan \/ b.nan THEN NaN ELSE IF a.v <= b.v THEN a ELSE b

RECURSIVE DigitsPrefix(_)
DigitsPrefix(t) ==
    IF t # <<>> /\ IsDigit(Head(t)) THEN <<Head(t)>> \o DigitsPrefix(Tail(t)) ELSE <<>>

RECURSIVE DecimalValue(_)
DecimalValue(ds) ==
    IF ds = <<>> THEN 0
    ELSE 10 * DecimalValue(SubSeq(ds, 1, Len(ds) - 1)) + DigitValue(ds[Len(ds)])

\* parseInt(t, 10): leading blanks, an optional sign, the longest run of digits
ParseInt(t) ==
    LET u == TrimLeft(t)
        signed == u # <<>> /\ Head(u) \in {"-", "+"}
        ds == DigitsPrefix(IF signed THEN Tail(u) ELSE u)
    IN IF ds = <<>> THEN NaN
       ELSE IF signed /\ Head(u) = "-" THEN Num(0 - DecimalValue(ds))
       ELSE Num(DecimalValue(ds))

\* parseInt(t) without a radix: as parseInt(t, 10), but a 0x prefix after the
\* sign selects base 16
HexLetters == <<"a", "b", "c", "d", "e", "f">>

IsHexDigit(c) == IsDigit(c) \/ \E i \in 1..6 : HexLetters[i] = ToLowerChar(c)

HexDigitValue(c) ==
    IF IsDigit(c) THEN DigitValue(c)
    ELSE 9 + (CHOOSE i \in 1..6 : HexLetters[i] = ToLowerChar(c))

RECURSIVE HexPrefix(_)
HexPrefix(t) ==
    IF t # <<>> /\ IsHexDigit(Head(t)) THEN <<Head(t)>> \o HexPrefix(Tail(t)) ELSE <<>>

RECURSIVE HexValue(_)
HexValue(hs) ==
    IF hs = <<>> THEN 0
    ELSE 16 * HexValue(SubSeq(hs, 1, Len(hs) - 1)) + HexDigitValue(hs[Len(hs)])

ParseIntAuto(t) ==
    LET u == TrimLeft(t)
        signed == u # <<>> /\ Head(u) \in {"-", "+"}
        body == IF signed THEN Tail(u) ELSE u
        hex == Len(body) >= 2 /\ body[1] = "0" /\ body[2] \in {"x", "X"}
        hs == IF hex THEN HexPrefix(SubSeq(body, 3, Len(body))) ELSE <<>>
    IN IF ~hex THEN ParseInt(t)
       ELSE IF hs = <<>> THEN NaN
       ELSE IF Head(u) = "-" THEN Num(0 - HexValue(hs))
       ELSE Num(HexValue(hs))

\* a query parameter: absent, one string, or an array of strings
Absent == [kind |-> "absent", v |-> <<>>, vs |-> <<>>]

Str(t) == [kind |-> "string", v |-> t, vs |-> <<>>]

Arr(ts) == [kind |-> "array", v |-> <<>>, vs |-> ts]

\* parseInt(param as string, 10) of a parameter that may be undefined
\* (an array is converted to its elements joined by commas, of which parseInt
\* reads the first)
ParseIntParam(param) ==
    IF param.kind = "string" THEN ParseInt(param.v)
    ELSE IF param.kind = "array" /\ param.vs # <<>> THEN ParseInt(param.vs[1])
    ELSE NaN

\* a parameter is truthy unless absent or the empty string
Truthy(param) ==
    \/ param.kind = "array"
    \/ param.kind = "string" /\ param.v # <<>>

\* parseInt(param as string) of a parameter that may be undefined
ParseIntAutoParam(param) ==
    IF param.kind = "string" THEN ParseIntAuto(param.v)
    ELSE IF param.kind = "array" /\ param.vs # <<>> THEN ParseIntAuto(param.vs[1])
    ELSE NaN

\* parseToArray: <<>> stands for undefined and for the empty array alike,
\* which the handler treats the same (rolesArray && rolesArray.length)
parseToArray(param) ==
    IF ~Truthy(param) THEN <<>>
    ELSE IF param.kind = "array"
    THEN FilterNonEmpty([i \in 1..Len(param.vs) |-> Trim(param.vs[i])])
    ELSE LET parts == Split(param.v)
         IN FilterNonEmpty([i \in 1..Len(parts) |-> Trim(parts[i])])

\* ------------------------------------------------------------ middleware
Respond(status, message, error) ==
    [status |-> status, message |-> message, error |-> error,
     next |-> FALSE, user |-> NoUser]

Continue(user) ==
    [status |-> 0, message |-> None, error |-> None, next |-> TRUE, user |-> user]

\* the message of the error jwt.verify throws
VerifyError(token) ==
    CASE token.kind = "malformed" -> "jwt malformed"
      [] token.kind = "badsig" -> "invalid signature"
      [] token.kind = "expired" -> "jwt expired"
      [] OTHER -> None

roleMiddlewareNoRoleCheck(role, token, secret) ==
    IF token.kind = "absent"
    THEN Respond(401, "Unauthorized: No token provided", None)
    ELSE IF ~secret
    THEN Respond(401, "Unauthorized: Invalid token", "JWT_SECRET not defined")
    ELSE IF token.kind # "valid"
    THEN Respond(401, "Unauthorized: Invalid token", VerifyError(token))
    ELSE Continue([userId |-> token.userId, role |-> token.role])

roleMiddleware(role, token, secret) ==
    IF token.kind = "absent"
    THEN Respond(401, "Unauthorized: No token provided", None)
    ELSE IF ~secret
    THEN Respond(401, "Unauthorized: Invalid token", "JWT_SECRET not defined")
    ELSE IF token.kind # "valid"
    THEN Respond(401, "Unauthorized: Invalid token", VerifyError(token))
    ELSE IF token.role # role
    THEN Respond(403, "Forbidden: Insufficient role", None)
    ELSE Continue([userId |-> token.userId, role |-> token.role])

authMiddlewareNoSubjectCheck(token, secret) ==
    IF token.kind = "absent"
    THEN Respond(401, "Unauthorized: No token provided", None)
    ELSE IF ~secret
    THEN Respond(401, "Unauthorized: Invalid token", "JWT_SECRET not defined")
    ELSE IF token.kind # "valid"
    THEN Respond(401, "Unauthorized: Invalid token", VerifyError(token))
    ELSE Continue([userId |-> token.userId, role |-> token.role])

authMiddleware(token, secret) ==
    IF token.kind = "absent"
    THEN Respond(401, "Unauthorized: No token provided", None)
    ELSE IF ~secret
    THEN Respond(401, "Unauthorized: Invalid token", "JWT_SECRET not defined")
    ELSE IF token.kind # "valid"
    THEN Respond(401, "Unauthorized: Invalid token", VerifyError(token))
    ELSE IF token.userId # None
    THEN Continue([userId |-> token.userId, role |-> token.role])
    ELSE Respond(401, "Invalid token payload", None)

\* ------------------------------------------------------- job search query
\* the where clause of GET /jobs; an empty list stands for a key that is not
\* set, except OR, which the handler always sets
NoWhere ==
    [notUser |-> None, role |-> <<>>, skills |-> <<>>, AND |-> <<>>,
     company |-> <<>>, jobType |-> <<>>, OR |-> <<>>, workMode |-> <<>>,
     department |-> <<>>, companyType |-> <<>>]

\* the query string of a search; every parameter is optional
NoQuery ==
    [page |-> Absent, limit |-> Absent, roles |-> Absent, skills |-> Absent,
     jobType |-> Absent, location |-> Absent, workMode |-> Absent,
     department |-> Absent, salaryMin |-> Absent, salaryMax |-> Absent,
     companyType |-> Absent, postedDate |-> Absent, company |-> Absent,
     minExperience |-> Absent, maxExperience |-> Absent]

NoArgs ==
    [where |-> NoWhere, page |-> NaN, limit |-> NaN, skip |-> NaN,
     order |-> "desc"]

\* --------------------------------------------------------- job write body
\* an optional number of a body, and a nullable number of a row
NoNum == [has |-> FALSE, v |-> 0]

Some(n) == [has |-> TRUE, v |-> n]

\* the compensation fields of the body of a job write; None and NoNum stand
\* for fields the body does not carry
NoCtc == [ctcType |-> None, minCTC |-> NoNum, maxCTC |-> NoNum]

\* ------------------------------------------------------- signup and signin
\* the body of POST /auth/signup and POST /auth/signin; signin has no role
\* and no confirmPassword
NoAuth ==
    [email |-> <<>>, password |-> <<>>, confirmPassword |-> <<>>, role |-> None]

\* the columns of the User row a signin read
NoFound == [id |-> None, role |-> None, password |-> <<>>]

\* -------------------------------------------------------------- requests
\* kind: the route; gate: the role the route's middleware requires ("auth"
\* for authMiddleware, None for an ungated route); handler: whether the
\* route handler was invoked
Idle ==
    [kind |-> "idle", pc |-> "idle", gate |-> None, token |-> NoToken,
     user |-> NoUser, handler |-> FALSE, jobId |-> None, appId |-> 0,
     data |-> None, status |-> 0, message |-> None, error |-> None,
     wrote |-> FALSE, args |-> NoArgs, pending |-> {}, result |-> <<>>,
     total |-> 0, auth |-> NoAuth, found |-> NoFound, cookie |-> NoToken,
     ctc |-> NoCtc, companyId |-> None, query |-> NoQuery, strict |-> FALSE,
     method |-> None, path |-> <<>>]

\* the request as the middleware result mw leaves it
Gated(r, mw) ==
    [r EXCEPT !.user = mw.user, !.handler = mw.next,
              !.pc = IF mw.next THEN "handler" ELSE "done",
              !.status = mw.status, !.message = mw.message, !.error = mw.error]

Reply(r, status, message) ==
    [r EXCEPT !.pc = "done", !.status = status, !.message = message]

ReplyError(r, status, message, error) ==
    [r EXCEPT !.pc = "done", !.status = status, !.message = message,
              !.error = error]

Done(s) == reqs[s].pc = "done"

\* ------------------------------------------------------ middleware alone
\* a route whose handler does nothing but answer 200
ReceiveRoleGated(s, role, token) ==
    /\ reqs[s].pc = "idle"
    /\ LET r0 == [Idle EXCEPT !.kind = "roleGated", !.gate = role, !.token = token]
           r1 == Gated(r0, roleMiddleware(role, token, jwtSecret))
       IN reqs' = [reqs EXCEPT ![s] = IF r1.handler THEN Reply(r1, 200, "ok") ELSE r1]
    /\ UNCHANGED <<jwtSecret, store>>

ReceiveAuthGated(s, token) ==
    /\ reqs[s].pc = "idle"
    /\ LET r0 == [Idle EXCEPT !.kind = "authGated", !.gate = "auth", !.token = token]
           r1 == Gated(r0, authMiddleware(token, jwtSecret))
       IN reqs' = [reqs EXCEPT ![s] = IF r1.handler THEN Reply(r1, 200, "ok") ELSE r1]
    /\ UNCHANGED <<jwtSecret, store>>

\* ----------------------------------------------------------------- store
Pune == <<"P", "u", "n", "e">>

Delhi == <<"D", "e", "l", "h", "i">>

Acme == <<"A", "c", "m", "e">>

\* a Job row with the columns the handlers read
JobRow(id, recruiterId, title, location, createdAt) ==
    [id |-> id, recruiterId |-> recruiterId, title |-> title,
     role |-> <<"F", "E">>, skills |-> {<<"t", "s">>}, location |-> location,
     minExperience |-> 2, maxExperience |-> 6, salaryMin |-> 10, salaryMax |-> 20,
     jobType |-> <<"R">>, workMode |-> <<"R">>, department |-> <<"E">>,
     companyType |-> <<"M">>, company |-> Acme, createdAt |-> createdAt,
     ctcType |-> "RANGE", minCTC |-> Some(10), maxCTC |-> Some(20),
     companyId |-> "c1"]

HiddenJobRow(userId, jobId) == [userId |-> userId, jobId |-> jobId]

ApplicationRow(id, applicantId, jobId, status) ==
    [id |-> id, applicantId |-> applicantId, jobId |-> jobId, status |-> status]

SavedJobRow(id, applicantId, jobId) ==
    [id |-> id, applicantId |-> applicantId, jobId |-> jobId]

JobExists(jobId) == \E j \in jobs : j.id = jobId

JobOf(jobId) == CHOOSE j \in jobs : j.id = jobId

ApplicationsOf(applicantId, jobId) ==
    {a \in applications : a.applicantId = applicantId /\ a.jobId = jobId}

SavedJobsOf(applicantId, jobId) ==
    {v \in savedJobs : v.applicantId = applicantId /\ v.jobId = jobId}

\* Application_applicantId_jobId_key, and the foreign keys of Application
ApplicationInsertNoUniqueIndex(applicantId, jobId) ==
    /\ applicantId \in applicants
    /\ JobExists(jobId)

ApplicationInsertAllowed(applicantId, jobId) ==
    /\ ApplicationsOf(applicantId, jobId) = {}
    /\ applicantId \in applicants
    /\ JobExists(jobId)

\* ------------------------------------------------ POST /jobs/:jobId/apply
ReceiveApply(s, token, jobId, bodyOk) ==
    /\ reqs[s].pc = "idle"
    /\ LET r0 == [Idle EXCEPT !.kind = "apply", !.gate = "APPLICANT",
                              !.token = token, !.jobId = jobId]
           r1 == Gated(r0, roleMiddleware("APPLICANT", token, jwtSecret))
       IN reqs' = [reqs EXCEPT ![s] =
            IF ~r1.handler THEN r1
            ELSE IF r1.user.userId = None THEN Reply(r1, 401, "Unauthorized")
            ELSE IF ~bodyOk THEN Reply([r1 EXCEPT !.data = "invalid"], 400, "Invalid input")
            ELSE [r1 EXCEPT !.pc = "findApplicant", !.data = "valid"]]
    /\ UNCHANGED <<jwtSecret, store>>

ApplyFindApplicant(s) ==
    /\ reqs[s].kind = "apply" /\ reqs[s].pc = "findApplicant"
    /\ reqs' = [reqs EXCEPT ![s] =
            IF reqs[s].user.userId \in applicants
            THEN [@ EXCEPT !.pc = "findJob"]
            ELSE Reply(@, 404, "Applicant profile not found")]
    /\ UNCHANGED <<jwtSecret, store>>

ApplyFindJobSkipped(s) ==
    /\ reqs[s].kind = "apply" /\ reqs[s].pc = "findJob"
    /\ reqs' = [reqs EXCEPT ![s] = [@ EXCEPT !.pc = "findExisting"]]
    /\ UNCHANGED <<jwtSecret, store>>

ApplyFindJob(s) ==
    /\ reqs[s].kind = "apply" /\ reqs[s].pc = "findJob"
    /\ reqs' = [reqs EXCEPT ![s] =
            IF JobExists(reqs[s].jobId)
            THEN [@ EXCEPT !.pc = "findExisting"]
            ELSE Reply(@, 404, "Job not found")]
    /\ UNCHANGED <<jwtSecret, store>>

ApplyFindExisting(s) ==
    /\ reqs[s].kind = "apply" /\ reqs[s].pc = "findExisting"
    /\ reqs' = [reqs EXCEPT ![s] =
            IF ApplicationsOf(reqs[s].user.userId, reqs[s].jobId) # {}
            THEN Reply(@, 409, "You have already applied to this job")
            ELSE [@ EXCEPT !.pc = "create"]]
    /\ UNCHANGED <<jwtSecret, store>>

ApplyCreate(s) ==
    /\ reqs[s].kind = "apply" /\ reqs[s].pc = "create"
    /\ LET a == reqs[s].user.userId
           j == reqs[s].jobId
       IN IF ApplicationInsertAllowed(a, j)
          THEN /\ applications' = applications
                        \cup {ApplicationRow(idSeq + 1, a, j, "PENDING")}
               /\ idSeq' = idSeq + 1
               /\ reqs' = [reqs EXCEPT ![s] =
                        [Reply(@, 201, "Application submitted successfully")
                            EXCEPT !.wrote = TRUE, !.appId = idSeq + 1]]
          ELSE /\ reqs' = [reqs EXCEPT ![s] =
                        ReplyError(@, 500, "Internal server error", "constraint")]
               /\ UNCHANGED <<applications, idSeq>>
    /\ UNCHANGED <<jwtSecret, users, hiddenJobs, applicants, jobs, savedJobs>>

\* SavedJob_applicantId_jobId_key, and the foreign keys of SavedJob
SavedJobInsertNoUniqueIndex(applicantId, jobId) ==
    /\ applicantId \in applicants
    /\ JobExists(jobId)

SavedJobInsertAllowed(applicantId, jobId) ==
    /\ SavedJobsOf(applicantId, jobId) = {}
    /\ applicantId \in applicants
    /\ JobExists(jobId)

\* ------------------------------------------------- POST /jobs/:jobId/save
ReceiveSave(s, token, jobId) ==
    /\ reqs[s].pc = "idle"
    /\ LET r0 == [Idle EXCEPT !.kind = "save", !.gate = "APPLICANT",
                              !.token = token, !.jobId = jobId]
           r1 == Gated(r0, roleMiddleware("APPLICANT", token, jwtSecret))
       IN reqs' = [reqs EXCEPT ![s] =
            IF ~r1.handler THEN r1
            ELSE IF r1.user.userId = None THEN Reply(r1, 401, "Unauthorized")
            ELSE [r1 EXCEPT !.pc = "findJob"]]
    /\ UNCHANGED <<jwtSecret, store>>

SaveFindJob(s) ==
    /\ reqs[s].kind = "save" /\ reqs[s].pc = "findJob"
    /\ reqs' = [reqs EXCEPT ![s] =
            IF JobExists(reqs[s].jobId)
            THEN [@ EXCEPT !.pc = "findSaved"]
            ELSE Reply(@, 404, "Job not found")]
    /\ UNCHANGED <<jwtSecret, store>>

SaveFindSavedSkipped(s) ==
    /\ reqs[s].kind = "save" /\ reqs[s].pc = "findSaved"
    /\ reqs' = [reqs EXCEPT ![s] = [@ EXCEPT !.pc = "create"]]
    /\ UNCHANGED <<jwtSecret, store>>

SaveFindSaved(s) ==
    /\ reqs[s].kind = "save" /\ reqs[s].pc = "findSaved"
    /\ reqs' = [reqs EXCEPT ![s] =
            IF SavedJobsOf(reqs[s].user.userId, reqs[s].jobId) # {}
            THEN Reply(@, 409, "You have already saved this job.")
            ELSE [@ EXCEPT !.pc = "create"]]
    /\ UNCHANGED <<jwtSecret, store>>

SaveCreate(s) ==
    /\ reqs[s].kind = "save" /\ reqs[s].pc = "create"
    /\ LET a == reqs[s].user.userId
           j == reqs[s].jobId
       IN IF SavedJobInsertAllowed(a, j)
          THEN /\ savedJobs' = savedJobs \cup {SavedJobRow(idSeq + 1, a, j)}
               /\ idSeq' = idSeq + 1
               /\ reqs' = [reqs EXCEPT ![s] =
                        [Reply(@, 201, "Job saved successfully")
                            EXCEPT !.wrote = TRUE]]
          ELSE /\ reqs' = [reqs EXCEPT ![s] =
                        ReplyError(@, 500, "Internal server error", "constraint")]
               /\ UNCHANGED <<savedJobs, idSeq>>
    /\ UNCHANGED <<jwtSecret, users, hiddenJobs, applicants, jobs, applications>>

\* --------------------------------------------- DELETE /jobs/:jobId/unsave
ReceiveUnsave(s, token, jobId) ==
    /\ reqs[s].pc = "idle"
    /\ LET r0 == [Idle EXCEPT !.kind = "unsave", !.gate = "APPLICANT",
                              !.token = token, !.jobId = jobId]
           r1 == Gated(r0, roleMiddleware("APPLICANT", token, jwtSecret))
       IN reqs' = [reqs EXCEPT ![s] =
            IF ~r1.handler THEN r1
            ELSE IF r1.user.userId = None THEN Reply(r1, 401, "Unauthorized")
            ELSE [r1 EXCEPT !.pc = "findJob"]]
    /\ UNCHANGED <<jwtSecret, store>>

UnsaveFindJob(s) ==
    /\ reqs[s].kind = "unsave" /\ reqs[s].pc = "findJob"
    /\ reqs' = [reqs EXCEPT ![s] =
            IF JobExists(reqs[s].jobId)
            THEN [@ EXCEPT !.pc = "findSaved"]
            ELSE Reply(@, 404, "Job not found")]
    /\ UNCHANGED <<jwtSecret, store>>

UnsaveFindSaved(s) ==
    /\ reqs[s].kind = "unsave" /\ reqs[s].pc = "findSaved"
    /\ reqs' = [reqs EXCEPT ![s] =
            IF SavedJobsOf(reqs[s].user.userId, reqs[s].jobId) = {}
            THEN Reply(@, 404, "Saved job not found.")
            ELSE [@ EXCEPT !.pc = "delete"]]
    /\ UNCHANGED <<jwtSecret, store>>

\* the rows prisma.savedJob.delete removes for the unique key
SavedJobDeleteAllOfJob(applicantId, jobId) ==
    {v \in savedJobs : v.jobId = jobId}

SavedJobDeleteTarget(applicantId, jobId) == SavedJobsOf(applicantId, jobId)

UnsaveDelete(s) ==
    /\ reqs[s].kind = "unsave" /\ reqs[s].pc = "delete"
    /\ LET target == SavedJobDeleteTarget(reqs[s].user.userId, reqs[s].jobId)
       IN IF target # {}
          THEN /\ savedJobs' = savedJobs \ target
               /\ reqs' = [reqs EXCEPT ![s] =
                        [Reply(@, 200, "Saved job removed successfully")
                            EXCEPT !.wrote = TRUE]]
          ELSE /\ reqs' = [reqs EXCEPT ![s] =
                        ReplyError(@, 500, "Internal server error", "not found")]
               /\ UNCHANGED savedJobs
    /\ UNCHANGED <<jwtSecret, users, hiddenJobs, applicants, jobs, applications, idSeq>>

\* ------------------------------------- PATCH, PUT and DELETE /jobs/:jobId
\* data: the new title, None when the body carries none, or "invalid" when a
\* field other than the compensation fields is rejected; ctc: the
\* compensation fields
CtcTypes == {"RANGE", "COMPETITIVE", "UNDISCLOSED"}

CtcFieldsOk(ctc) ==
    /\ ctc.ctcType \in CtcTypes \cup {None}
    /\ ctc.minCTC.has => ctc.minCTC.v >= 0
    /\ ctc.maxCTC.has => ctc.maxCTC.v >= 0

\* jobPatchBody and jobPutBody, which carry the same refinement
jobPatchBodyNoRefine(data, ctc) == data # "invalid" /\ CtcFieldsOk(ctc)

jobPatchBody(data, ctc) ==
    /\ data # "invalid"
    /\ CtcFieldsOk(ctc)
    /\ ctc.ctcType = "RANGE" =>
            /\ ctc.minCTC.has /\ ctc.maxCTC.has
            /\ ctc.minCTC.v <= ctc.maxCTC.v

\* jobPostBody: every field is required
jobPostBody(data, ctc) ==
    /\ data \notin {"invalid", None}
    /\ CtcFieldsOk(ctc)
    /\ ctc.ctcType # None /\ ctc.minCTC.has /\ ctc.maxCTC.has
    /\ ctc.ctcType = "RANGE" => ctc.minCTC.v <= ctc.maxCTC.v

ReceivePatchJob(s, token, jobId, data, ctc) ==
    /\ reqs[s].pc = "idle"
    /\ LET r0 == [Idle EXCEPT !.kind = "patchJob", !.gate = "RECRUITER",
                              !.token = token, !.jobId = jobId, !.data = data,
                              !.ctc = ctc]
           r1 == Gated(r0, roleMiddleware("RECRUITER", token, jwtSecret))
       IN reqs' = [reqs EXCEPT ![s] =
            IF ~r1.handler THEN r1
            ELSE IF r1.user.userId = None THEN Reply(r1, 401, "Unauthorized")
            ELSE IF ~jobPatchBody(data, ctc) THEN Reply(r1, 400, "Incorrect inputs")
            ELSE [r1 EXCEPT !.pc = "findJob"]]
    /\ UNCHANGED <<jwtSecret, store>>

ReceivePutJob(s, token, jobId, data, ctc) ==
    /\ reqs[s].pc = "idle"
    /\ LET r0 == [Idle EXCEPT !.kind = "putJob", !.gate = "RECRUITER",
                              !.token = token, !.jobId = jobId, !.data = data,
                              !.ctc = ctc]
           r1 == Gated(r0, roleMiddleware("RECRUITER", token, jwtSecret))
       IN reqs' = [reqs EXCEPT ![s] =
            IF ~r1.handler THEN r1
            ELSE IF ~jobPatchBody(data, ctc) THEN Reply(r1, 400, "Incorrect inputs")
            ELSE IF r1.user.userId = None THEN Reply(r1, 401, "Unauthorized")
            ELSE [r1 EXCEPT !.pc = "findJob"]]
    /\ UNCHANGED <<jwtSecret, store>>

ReceiveDeleteJob(s, token, jobId) ==
    /\ reqs[s].pc = "idle"
    /\ LET r0 == [Idle EXCEPT !.kind = "deleteJob", !.gate = "RECRUITER",
                              !.token = token, !.jobId = jobId]
           r1 == Gated(r0, roleMiddleware("RECRUITER", token, jwtSecret))
       IN reqs' = [reqs EXCEPT ![s] =
            IF ~r1.handler THEN r1
            ELSE IF r1.user.userId = None THEN Reply(r1, 401, "Unauthorized")
            ELSE [r1 EXCEPT !.pc = "findJob"]]
    /\ UNCHANGED <<jwtSecret, store>>

\* the findUnique of the three handlers and the checks on its result
JobFindAnyRecruiter(s, kind, forbidden, write) ==
    /\ reqs[s].kind = kind /\ reqs[s].pc = "findJob"
    /\ reqs' = [reqs EXCEPT ![s] =
            IF ~JobExists(reqs[s].jobId) THEN Reply(@, 404, "Job not found")
            ELSE [@ EXCEPT !.pc = write]]
    /\ UNCHANGED <<jwtSecret, store>>

JobFind(s, kind, forbidden, write) ==
    /\ reqs[s].kind = kind /\ reqs[s].pc = "findJob"
    /\ reqs' = [reqs EXCEPT ![s] =
            IF ~JobExists(reqs[s].jobId) THEN Reply(@, 404, "Job not found")
            ELSE IF JobOf(reqs[s].jobId).recruiterId # reqs[s].user.userId
            THEN Reply(@, 403, forbidden)
            ELSE [@ EXCEPT !.pc = write]]
    /\ UNCHANGED <<jwtSecret, store>>

PatchJobFindWriteFirst(s) ==
    /\ reqs[s].kind = "patchJob" /\ reqs[s].pc = "findJob"
    /\ IF JobExists(reqs[s].jobId)
            /\ JobOf(reqs[s].jobId).recruiterId # reqs[s].user.userId
       THEN /\ jobs' = (jobs \ {JobOf(reqs[s].jobId)})
                    \cup {[JobOf(reqs[s].jobId) EXCEPT !.title = reqs[s].data]}
            /\ reqs' = [reqs EXCEPT ![s] =
                    [Reply(@, 403, "Forbidden: You can't edit this job")
                        EXCEPT !.wrote = TRUE]]
       ELSE /\ reqs' = [reqs EXCEPT ![s] =
                    IF ~JobExists(reqs[s].jobId) THEN Reply(@, 404, "Job not found")
                    ELSE [@ EXCEPT !.pc = "update"]]
            /\ UNCHANGED jobs
    /\ UNCHANGED <<jwtSecret, users, hiddenJobs, applicants, applications, savedJobs, idSeq>>

PatchJobFind(s) ==
    JobFind(s, "patchJob", "Forbidden: You can't edit this job", "update")

PutJobFind(s) ==
    JobFind(s, "putJob", "Forbidden: You can't edit this job", "update")

DeleteJobFind(s) ==
    JobFind(s, "deleteJob", "Forbidden: You can't delete this job", "delete")

\* the row with the fields of the body written over it
ApplyJobData(job, data, ctc) ==
    [job EXCEPT !.title = IF data = None THEN @ ELSE data,
                !.ctcType = IF ctc.ctcType = None THEN @ ELSE ctc.ctcType,
                !.minCTC = IF ctc.minCTC.has THEN ctc.minCTC ELSE @,
                !.maxCTC = IF ctc.maxCTC.has THEN ctc.maxCTC ELSE @]

\* prisma.job.update: fails when the row is gone
JobUpdate(s, kind) ==
    /\ reqs[s].kind = kind /\ reqs[s].pc = "update"
    /\ IF JobExists(reqs[s].jobId)
       THEN /\ jobs' = (jobs \ {JobOf(reqs[s].jobId)})
                    \cup {ApplyJobData(JobOf(reqs[s].jobId), reqs[s].data,
                                        reqs[s].ctc)}
            /\ reqs' = [reqs EXCEPT ![s] =
                    [Reply(@, 200, "Job updated successfully") EXCEPT !.wrote = TRUE]]
       ELSE /\ reqs' = [reqs EXCEPT ![s] =
                    ReplyError(@, 500, "Error updating the job", "not found")]
            /\ UNCHANGED jobs
    /\ UNCHANGED <<jwtSecret, users, hiddenJobs, applicants, applications, savedJobs, idSeq>>

PatchJobUpdate(s) == JobUpdate(s, "patchJob")

PutJobUpdate(s) == JobUpdate(s, "putJob")

JobDeleteNoRestrict(jobId) == JobExists(jobId)

\* Application_jobId_fkey and SavedJob_jobId_fkey are ON DELETE RESTRICT
JobDeleteAllowed(jobId) ==
    /\ JobExists(jobId)
    /\ \A a \in applications : a.jobId # jobId
    /\ \A v \in savedJobs : v.jobId # jobId

DeleteJobDelete(s) ==
    /\ reqs[s].kind = "deleteJob" /\ reqs[s].pc = "delete"
    /\ IF JobDeleteAllowed(reqs[s].jobId)
       THEN /\ jobs' = jobs \ {JobOf(reqs[s].jobId)}
            /\ reqs' = [reqs EXCEPT ![s] =
                    [Reply(@, 200, "Job deleted successfully") EXCEPT !.wrote = TRUE]]
       ELSE /\ reqs' = [reqs EXCEPT ![s] =
                    ReplyError(@, 500, "Error deleting the job",
                               IF JobExists(reqs[s].jobId) THEN "constraint"
                                                           ELSE "not found")]
            /\ UNCHANGED jobs
    /\ UNCHANGED <<jwtSecret, users, hiddenJobs, applicants, applications, savedJobs, idSeq>>


\* ---------------------------------------------------------- POST /jobs
\* the rows of Recruiter and Company, which no modelled handler writes
SeedRecruiters == {"u1", "u2"}

SeedCompanies == {"c1"}

\* the ids of Job rows in the order in which new rows take them
JobIdOrder == <<"j1", "j2", "j3">>

JobIdInUse(id) == \E j \in jobs : j.id = id

HasFreeJobId == \E i \in 1..Len(JobIdOrder) : ~JobIdInUse(JobIdOrder[i])

NewJobId ==
    LET i == CHOOSE k \in 1..Len(JobIdOrder) :
                /\ ~JobIdInUse(JobIdOrder[k])
                /\ \A m \in 1..(k - 1) : JobIdInUse(JobIdOrder[m])
    IN JobIdOrder[i]

\* createdAt defaults to the time of the insert
Now == 1 + Cardinality(jobs)

\* Job_recruiterId_fkey and Job_companyId_fkey
JobInsertAllowed(recruiterId, companyId) ==
    recruiterId \in SeedRecruiters /\ companyId \in SeedCompanies

ReceiveCreateJob(s, token, data, ctc, companyId) ==
    /\ reqs[s].pc = "idle"
    /\ LET r0 == [Idle EXCEPT !.kind = "createJob", !.gate = "RECRUITER",
                              !.token = token, !.data = data, !.ctc = ctc,
                              !.companyId = companyId]
           r1 == Gated(r0, roleMiddleware("RECRUITER", token, jwtSecret))
       IN reqs' = [reqs EXCEPT ![s] =
            IF ~r1.handler THEN r1
            ELSE IF r1.user.userId = None THEN Reply(r1, 401, "Unauthorized")
            ELSE IF ~jobPostBody(data, ctc) THEN Reply(r1, 400, "Incorrect inputs")
            ELSE [r1 EXCEPT !.pc = "create"]]
    /\ UNCHANGED <<jwtSecret, store>>

\* prisma.job.create with the recruiterId of the token
CreateJobCreate(s) ==
    /\ reqs[s].kind = "createJob" /\ reqs[s].pc = "create"
    /\ HasFreeJobId \/ ~JobInsertAllowed(reqs[s].user.userId, reqs[s].companyId)
    /\ IF JobInsertAllowed(reqs[s].user.userId, reqs[s].companyId)
       THEN LET row == [JobRow(NewJobId, reqs[s].user.userId, reqs[s].data, Pune, Now)
                            EXCEPT !.companyId = reqs[s].companyId]
            IN /\ jobs' = jobs \cup {ApplyJobData(row, reqs[s].data, reqs[s].ctc)}
               /\ reqs' = [reqs EXCEPT ![s] =
                    [Reply(@, 201, "Job created successfully")
                        EXCEPT !.wrote = TRUE, !.jobId = row.id]]
       ELSE /\ reqs' = [reqs EXCEPT ![s] =
                    ReplyError(@, 500, "Error creating a job", "foreign key")]
            /\ UNCHANGED jobs
    /\ UNCHANGED <<jwtSecret, users, hiddenJobs, applicants, applications,
                   savedJobs, idSeq>>

\* ------------------------------------------ PATCH /applications/:id/status
ApplicationExists(id) == \E a \in applications : a.id = id

ApplicationOf(id) == CHOOSE a \in applications : a.id = id

\* data: the status of the parsed body, or "invalid" when applicationPatchBody
\* rejects it
ReceiveSetStatus(s, token, id, data) ==
    /\ reqs[s].pc = "idle"
    /\ LET r0 == [Idle EXCEPT !.kind = "setStatus", !.gate = "RECRUITER",
                              !.token = token, !.appId = id, !.data = data]
           r1 == Gated(r0, roleMiddleware("RECRUITER", token, jwtSecret))
       IN reqs' = [reqs EXCEPT ![s] =
            IF ~r1.handler THEN r1
            ELSE IF r1.user.userId = None THEN Reply(r1, 401, "Unauthorized")
            ELSE IF data \notin ApplicationStatus THEN Reply(r1, 400, "Invalid input")
            ELSE [r1 EXCEPT !.pc = "findApplication"]]
    /\ UNCHANGED <<jwtSecret, store>>

SetStatusFindAnyRecruiter(s) ==
    /\ reqs[s].kind = "setStatus" /\ reqs[s].pc = "findApplication"
    /\ reqs' = [reqs EXCEPT ![s] =
            IF ~ApplicationExists(reqs[s].appId)
            THEN Reply(@, 404, "Application not found")
            ELSE [@ EXCEPT !.pc = "update"]]
    /\ UNCHANGED <<jwtSecret, store>>

SetStatusFind(s) ==
    /\ reqs[s].kind = "setStatus" /\ reqs[s].pc = "findApplication"
    /\ reqs' = [reqs EXCEPT ![s] =
            IF ~ApplicationExists(reqs[s].appId)
            THEN Reply(@, 404, "Application not found")
            ELSE IF JobOf(ApplicationOf(reqs[s].appId).jobId).recruiterId
                        # reqs[s].user.userId
            THEN Reply(@, 403, "Forbidden: You can only update applications for your own jobs.")
            ELSE [@ EXCEPT !.pc = "update"]]
    /\ UNCHANGED <<jwtSecret, store>>

SetStatusUpdateForwardOnly(s) ==
    /\ reqs[s].kind = "setStatus" /\ reqs[s].pc = "update"
    /\ IF ApplicationExists(reqs[s].appId)
            /\ ~(reqs[s].data = "PENDING"
                    /\ ApplicationOf(reqs[s].appId).status # "PENDING")
       THEN /\ applications' = (applications \ {ApplicationOf(reqs[s].appId)})
                    \cup {[ApplicationOf(reqs[s].appId) EXCEPT !.status = reqs[s].data]}
            /\ reqs' = [reqs EXCEPT ![s] =
                    [Reply(@, 200, "Application status updated successfully")
                        EXCEPT !.wrote = TRUE]]
       ELSE /\ reqs' = [reqs EXCEPT ![s] =
                    ReplyError(@, 500, "Internal server error", "not found")]
            /\ UNCHANGED applications
    /\ UNCHANGED <<jwtSecret, users, hiddenJobs, applicants, jobs, savedJobs, idSeq>>

SetStatusUpdate(s) ==
    /\ reqs[s].kind = "setStatus" /\ reqs[s].pc = "update"
    /\ IF ApplicationExists(reqs[s].appId)
       THEN /\ applications' = (applications \ {ApplicationOf(reqs[s].appId)})
                    \cup {[ApplicationOf(reqs[s].appId) EXCEPT !.status = reqs[s].data]}
            /\ reqs' = [reqs EXCEPT ![s] =
                    [Reply(@, 200, "Application status updated successfully")
                        EXCEPT !.wrote = TRUE]]
       ELSE /\ reqs' = [reqs EXCEPT ![s] =
                    ReplyError(@, 500, "Internal server error", "not found")]
            /\ UNCHANGED applications
    /\ UNCHANGED <<jwtSecret, users, hiddenJobs, applicants, jobs, savedJobs, idSeq>>

\* ------------------------------------------------- routes of /applications
\* the routes of the two routers mounted on /applications, in the order in
\* which the routers are mounted and the routes registered
ApplicationRoutes ==
    <<[method |-> "GET", path |-> <<":id">>, gate |-> "RECRUITER",
       handler |-> "getApplication"],
      [method |-> "PATCH", path |-> <<":id", "status">>, gate |-> "RECRUITER",
       handler |-> "setStatus"],
      [method |-> "GET", path |-> <<":id", "resume">>, gate |-> "RECRUITER",
       handler |-> "getResume"],
      [method |-> "GET", path |-> <<"me">>, gate |-> "APPLICANT",
       handler |-> "getMyApplications"]>>

\* a segment of a route's path matches a segment of the request's path
SegmentMatches(pattern, segment) ==
    pattern \in {":id", ":jobId"} \/ pattern = segment

RouteMatches(route, method, path) ==
    /\ route.method = method
    /\ Len(route.path) = Len(path)
    /\ \A i \in 1..Len(path) : SegmentMatches(route.path[i], path[i])

\* the first route that matches, or 0
Dispatch(routes, method, path) ==
    IF \E i \in 1..Len(routes) : RouteMatches(routes[i], method, path)
    THEN CHOOSE i \in 1..Len(routes) :
            /\ RouteMatches(routes[i], method, path)
            /\ \A k \in 1..(i - 1) : ~RouteMatches(routes[k], method, path)
    ELSE 0

\* the Application id a path segment names: 0 when the segment is no UUID
AppIdOf(segment) ==
    CASE segment = "1" -> 1
      [] segment = "2" -> 2
      [] segment = "3" -> 3
      [] segment = "9" -> 9
      [] OTHER -> 0

\* the applicants whose profile has a resumeUrl
SeedResumes == {"u2"}

\* GET /applications/:id and GET /applications/:id/resume up to the lookup
ReceiveGetApplication(s, token, kind, method, path) ==
    /\ reqs[s].pc = "idle"
    /\ LET r0 == [Idle EXCEPT !.kind = kind, !.gate = "RECRUITER",
                              !.token = token, !.appId = AppIdOf(path[1]),
                              !.method = method, !.path = path]
           r1 == Gated(r0, roleMiddleware("RECRUITER", token, jwtSecret))
       IN reqs' = [reqs EXCEPT ![s] =
            IF ~r1.handler THEN r1
            ELSE IF r1.user.userId = None THEN Reply(r1, 401, "Unauthorized")
            ELSE [r1 EXCEPT !.pc = "findApplication"]]
    /\ UNCHANGED <<jwtSecret, store>>

GetApplicationFindResumeFirst(s) ==
    /\ reqs[s].kind \in {"getApplication", "getResume"}
    /\ reqs[s].pc = "findApplication"
    /\ reqs' = [reqs EXCEPT ![s] =
            IF reqs[s].appId = 0
            THEN ReplyError(@, 500, "Internal server error", "invalid id")
            ELSE IF ~ApplicationExists(reqs[s].appId)
            THEN Reply(@, 404, "Application not found")
            ELSE IF /\ reqs[s].kind = "getResume"
                    /\ ApplicationOf(reqs[s].appId).applicantId \notin SeedResumes
            THEN Reply(@, 404, "Resume not found for this applicant.")
            ELSE IF JobOf(ApplicationOf(reqs[s].appId).jobId).recruiterId
                        # reqs[s].user.userId
            THEN Reply(@, 403, IF reqs[s].kind = "getResume" THEN "Forbidden"
                ELSE "Forbidden: You can only view applications for your own jobs.")
            ELSE IF reqs[s].kind = "getApplication"
            THEN [Reply(@, 200, "Application fetched successfully")
                    EXCEPT !.result = <<reqs[s].appId>>]
            ELSE Reply(@, 302, None)]
    /\ UNCHANGED <<jwtSecret, store>>

\* prisma.application.findUnique and the answer; an id that is no UUID makes
\* the query fail
GetApplicationFind(s) ==
    /\ reqs[s].kind \in {"getApplication", "getResume"}
    /\ reqs[s].pc = "findApplication"
    /\ reqs' = [reqs EXCEPT ![s] =
            IF reqs[s].appId = 0
            THEN ReplyError(@, 500, "Internal server error", "invalid id")
            ELSE IF ~ApplicationExists(reqs[s].appId)
            THEN Reply(@, 404, "Application not found")
            ELSE IF JobOf(ApplicationOf(reqs[s].appId).jobId).recruiterId
                        # reqs[s].user.userId
            THEN Reply(@, 403, IF reqs[s].kind = "getResume" THEN "Forbidden"
                ELSE "Forbidden: You can only view applications for your own jobs.")
            ELSE IF reqs[s].kind = "getApplication"
            THEN [Reply(@, 200, "Application fetched successfully")
                    EXCEPT !.result = <<reqs[s].appId>>]
            ELSE IF ApplicationOf(reqs[s].appId).applicantId \notin SeedResumes
            THEN Reply(@, 404, "Resume not found for this applicant.")
            ELSE Reply(@, 302, None)]
    /\ UNCHANGED <<jwtSecret, store>>

\* parseInt(x) || fallback
OrDefault(n, fallback) == IF n.nan \/ n.v = 0 THEN Num(fallback) ELSE n

\* GET /applications/me up to the first query; q carries page and limit, and
\* statusRaw is the status parameter (None when absent); data is the status
\* filter the queries use
ReceiveGetMyApplications(s, token, method, path, q, statusRaw) ==
    /\ reqs[s].pc = "idle"
    /\ LET r0 == [Idle EXCEPT !.kind = "getMyApplications", !.gate = "APPLICANT",
                              !.token = token, !.method = method, !.path = path]
           r1 == Gated(r0, roleMiddleware("APPLICANT", token, jwtSecret))
           page == OrDefault(ParseIntAutoParam(q.page), 1)
           limit == OrDefault(ParseIntAutoParam(q.limit), 10)
       IN reqs' = [reqs EXCEPT ![s] =
            IF ~r1.handler THEN r1
            ELSE IF r1.user.userId = None THEN Reply(r1, 401, "Unauthorized")
            ELSE [r1 EXCEPT !.pc = "count", !.query = q,
                            !.args = [NoArgs EXCEPT !.page = page, !.limit = limit,
                                        !.skip = Num((page.v - 1) * limit.v)],
                            !.data = IF statusRaw \in ApplicationStatus
                                     THEN statusRaw ELSE None]]
    /\ UNCHANGED <<jwtSecret, store>>

\* the rows the two queries of GET /applications/me select
MyApplications(applicantId, status) ==
    {a \in applications :
        a.applicantId = applicantId /\ (status = None \/ a.status = status)}

\* the ids of the rows of as, newest first
RECURSIVE NewestFirst(_)
NewestFirst(as) ==
    IF as = {} THEN <<>>
    ELSE LET first == CHOOSE a \in as : \A b \in as : a.id >= b.id
         IN <<first.id>> \o NewestFirst(as \ {first})

MyApplicationsCount(s) ==
    /\ reqs[s].kind = "getMyApplications" /\ reqs[s].pc = "count"
    /\ reqs' = [reqs EXCEPT ![s] =
            [@ EXCEPT !.pc = "findMany",
                      !.total = Cardinality(MyApplications(reqs[s].user.userId,
                                                           reqs[s].data))]]
    /\ UNCHANGED <<jwtSecret, store>>

\* findMany with skip and take; a negative skip makes the query fail
MyApplicationsFindMany(s) ==
    /\ reqs[s].kind = "getMyApplications" /\ reqs[s].pc = "findMany"
    /\ reqs[s].args.limit.v >= 0
    /\ LET all == NewestFirst(MyApplications(reqs[s].user.userId, reqs[s].data))
           skip == reqs[s].args.skip.v
           last == IF skip + reqs[s].args.limit.v <= Len(all)
                   THEN skip + reqs[s].args.limit.v ELSE Len(all)
       IN reqs' = [reqs EXCEPT ![s] =
            IF skip < 0
            THEN ReplyError(@, 500, "Internal server error", "invalid argument")
            ELSE [Reply(@, 200, "Applications fetched successfully")
                    EXCEPT !.result = SubSeq(all, skip + 1, last)]]
    /\ UNCHANGED <<jwtSecret, store>>

\* a request to /applications: the first matching route takes it, and a
\* middleware that answers ends it; no route matching, the app answers 404
ReceiveApplicationsRequest(routes, s, token, method, path, data, q, statusRaw) ==
    LET i == Dispatch(routes, method, path)
        handler == IF i = 0 THEN None ELSE routes[i].handler
    IN CASE handler = "getApplication" ->
                ReceiveGetApplication(s, token, "getApplication", method, path)
         [] handler = "getResume" ->
                ReceiveGetApplication(s, token, "getResume", method, path)
         [] handler = "setStatus" ->
                ReceiveSetStatus(s, token, AppIdOf(path[1]), data)
         [] handler = "getMyApplications" ->
                ReceiveGetMyApplications(s, token, method, path, q, statusRaw)
         [] OTHER ->
                /\ reqs[s].pc = "idle"
                /\ reqs' = [reqs EXCEPT ![s] =
                        Reply([Idle EXCEPT !.kind = "notFound", !.token = token,
                                           !.method = method, !.path = path],
                              404, None)]
                /\ UNCHANGED <<jwtSecret, store>>

\* ---------------------------------------------------------- GET /jobs
Range(f) == {f[i] : i \in DOMAIN f}

Cond(field, op, value) == [field |-> field, op |-> op, value |-> value]

\* the conditions pushed on whereClause.AND for the experience band
ExperienceCondsSameSide(q) ==
    LET min == ParseIntAutoParam(q.minExperience)
        max == ParseIntAutoParam(q.maxExperience)
    IN (IF ~min.nan THEN <<Cond("minExperience", "gte", min.v)>> ELSE <<>>)
        \o (IF ~max.nan THEN <<Cond("maxExperience", "lte", max.v)>> ELSE <<>>)

ExperienceConds(q) ==
    LET min == ParseIntAutoParam(q.minExperience)
        max == ParseIntAutoParam(q.maxExperience)
    IN (IF ~min.nan THEN <<Cond("maxExperience", "gte", min.v)>> ELSE <<>>)
        \o (IF ~max.nan THEN <<Cond("minExperience", "lte", max.v)>> ELSE <<>>)

\* the conditions pushed on whereClause.AND for the salary band
SalaryConds(q) ==
    LET min == ParseIntParam(q.salaryMin)
        max == ParseIntParam(q.salaryMax)
    IN (IF Truthy(q.salaryMin) /\ ~min.nan
        THEN <<Cond("salaryMax", "gte", min.v)>> ELSE <<>>)
        \o (IF Truthy(q.salaryMax) /\ ~max.nan
            THEN <<Cond("salaryMin", "lte", max.v)>> ELSE <<>>)

\* whereClause as the handler builds it for the caller userId (None for a
\* request without req.user)
BuildWhere(q, userId) ==
    [notUser |-> userId,
     role |-> parseToArray(q.roles),
     skills |-> parseToArray(q.skills),
     AND |-> ExperienceConds(q) \o SalaryConds(q),
     company |-> IF q.company.kind = "string" THEN q.company.v ELSE <<>>,
     jobType |-> parseToArray(q.jobType),
     OR |-> parseToArray(q.location),
     workMode |-> parseToArray(q.workMode),
     department |-> parseToArray(q.department),
     companyType |-> parseToArray(q.companyType)]

\* pageNumber, limitNumber, skip and orderBy
BuildArgsNoUpperClamp(q, userId) ==
    LET pageNumber ==
            MathMax(IF q.page.kind = "absent" THEN Num(1) ELSE ParseIntParam(q.page),
                    Num(1))
        limitNumber ==
            MathMax(IF q.limit.kind = "absent" THEN Num(25)
                    ELSE ParseIntParam(q.limit), Num(1))
    IN [where |-> BuildWhere(q, userId),
        page |-> pageNumber,
        limit |-> limitNumber,
        skip |-> IF pageNumber.nan \/ limitNumber.nan THEN NaN
                 ELSE Num((pageNumber.v - 1) * limitNumber.v),
        order |-> IF /\ q.postedDate.kind = "string"
                     /\ ToLower(q.postedDate.v) = <<"o", "l", "d", "e", "s", "t">>
                  THEN "asc" ELSE "desc"]

BuildArgs(q, userId) ==
    LET pageNumber ==
            MathMax(IF q.page.kind = "absent" THEN Num(1) ELSE ParseIntParam(q.page),
                    Num(1))
        limitNumber ==
            MathMin(MathMax(IF q.limit.kind = "absent" THEN Num(25)
                            ELSE ParseIntParam(q.limit), Num(1)), Num(100))
    IN [where |-> BuildWhere(q, userId),
        page |-> pageNumber,
        limit |-> limitNumber,
        skip |-> IF pageNumber.nan \/ limitNumber.nan THEN NaN
                 ELSE Num((pageNumber.v - 1) * limitNumber.v),
        order |-> IF /\ q.postedDate.kind = "string"
                     /\ ToLower(q.postedDate.v) = <<"o", "l", "d", "e", "s", "t">>
                  THEN "asc" ELSE "desc"]

\* NOT: [{applications: {some: {userId}}}, {hiddenBy: {some: {userId}}}];
\* the handlers store the token's userId as the application's applicantId
Visible(job, userId) ==
    \/ userId = None
    \/ /\ \A a \in applications : ~(a.jobId = job.id /\ a.applicantId = userId)
       /\ \A h \in hiddenJobs : ~(h.jobId = job.id /\ h.userId = userId)

CondHolds(job, c) ==
    IF c.op = "gte" THEN job[c.field] >= c.value ELSE job[c.field] <= c.value

\* the keys of the where clause other than NOT; Prisma matches no row for an
\* empty OR list and every row for an empty AND list
MatchesFilters(job, w) ==
    /\ w.role # <<>> => job.role \in Range(w.role)
    /\ w.skills # <<>> => job.skills \cap Range(w.skills) # {}
    /\ \A i \in 1..Len(w.AND) : CondHolds(job, w.AND[i])
    /\ w.company # <<>> => ContainsInsensitive(job.company, w.company)
    /\ w.jobType # <<>> => job.jobType \in Range(w.jobType)
    /\ \E i \in 1..Len(w.OR) : ContainsInsensitive(job.location, w.OR[i])
    /\ w.workMode # <<>> => job.workMode \in Range(w.workMode)
    /\ w.department # <<>> => job.department \in Range(w.department)
    /\ w.companyType # <<>> => job.companyType \in Range(w.companyType)

Matches(job, w) == Visible(job, w.notUser) /\ MatchesFilters(job, w)

\* the ids of the rows of js ordered by createdAt
RECURSIVE OrderByCreatedAt(_, _)
OrderByCreatedAt(js, order) ==
    IF js = {} THEN <<>>
    ELSE LET first == CHOOSE j \in js :
                \A k \in js : IF order = "asc" THEN j.createdAt <= k.createdAt
                                               ELSE j.createdAt >= k.createdAt
         IN <<first.id>> \o OrderByCreatedAt(js \ {first}, order)

\* findMany with skip and take that are not numbers, by a client that lets
\* them pass: the rows are neither skipped nor limited
FindManyJobsUnpaged(args) ==
    OrderByCreatedAt({j \in jobs : Matches(j, args.where)}, args.order)

\* findMany({where, skip, take, orderBy})
FindManyJobs(args) ==
    LET all == OrderByCreatedAt({j \in jobs : Matches(j, args.where)}, args.order)
        last == IF args.skip.v + args.limit.v <= Len(all)
                THEN args.skip.v + args.limit.v ELSE Len(all)
    IN SubSeq(all, args.skip.v + 1, last)

CountJobs(args) == Cardinality({j \in jobs : Matches(j, args.where)})

\* the route has no middleware: req.user is never set on it.  strict says
\* whether the store client of the build rejects a skip or take that is NaN
ReceiveGetJobs(s, token, q, strict) ==
    /\ reqs[s].pc = "idle"
    /\ reqs' = [reqs EXCEPT ![s] =
            [Idle EXCEPT !.kind = "getJobs", !.token = token, !.handler = TRUE,
                         !.pc = "query", !.args = BuildArgs(q, NoUser.userId),
                         !.pending = {"findMany", "count"}, !.query = q,
                         !.strict = strict]]
    /\ UNCHANGED <<jwtSecret, store>>

\* Promise.all: the answer is sent when both queries have returned, and the
\* rejection of either is answered 500
GetJobsReturn(r, call) ==
    IF r.strict /\ (r.args.skip.nan \/ r.args.limit.nan)
    THEN [ReplyError(r, 500, "Error fetching jobs", "invalid argument")
            EXCEPT !.pending = {}, !.result = <<>>, !.total = 0]
    ELSE IF r.pending = {call}
    THEN [Reply(r, 200, None) EXCEPT !.pending = {}]
    ELSE [r EXCEPT !.pending = @ \ {call}]

GetJobsFindMany(s) ==
    /\ reqs[s].kind = "getJobs" /\ reqs[s].pc = "query"
    /\ "findMany" \in reqs[s].pending
    /\ reqs' = [reqs EXCEPT ![s] =
            GetJobsReturn([@ EXCEPT !.result =
                IF reqs[s].args.skip.nan \/ reqs[s].args.limit.nan
                THEN IF reqs[s].strict THEN <<>>
                     ELSE FindManyJobsUnpaged(reqs[s].args)
                ELSE FindManyJobs(reqs[s].args)], "findMany")]
    /\ UNCHANGED <<jwtSecret, store>>

GetJobsCount(s) ==
    /\ reqs[s].kind = "getJobs" /\ reqs[s].pc = "query"
    /\ "count" \in reqs[s].pending
    /\ reqs' = [reqs EXCEPT ![s] =
            GetJobsReturn([@ EXCEPT !.total = CountJobs(reqs[s].args)], "count")]
    /\ UNCHANGED <<jwtSecret, store>>

\* ---------------------------------------------------------- routes of /jobs
\* the routes of the jobs router in the order in which they are registered
JobsRoutes ==
    <<[method |-> "POST", path |-> <<>>, gate |-> "RECRUITER",
       handler |-> "createJob"],
      [method |-> "GET", path |-> <<"me">>, gate |-> "RECRUITER",
       handler |-> "getMyJobs"],
      [method |-> "PATCH", path |-> <<":jobId">>, gate |-> "RECRUITER",
       handler |-> "patchJob"],
      [method |-> "DELETE", path |-> <<":jobId">>, gate |-> "RECRUITER",
       handler |-> "deleteJob"],
      [method |-> "GET", path |-> <<":jobId", "dashboard">>, gate |-> "RECRUITER",
       handler |-> "getDashboard"],
      [method |-> "GET", path |-> <<":jobId", "applications">>,
       gate |-> "RECRUITER", handler |-> "getJobApplications"],
      [method |-> "GET", path |-> <<>>, gate |-> None, handler |-> "getJobs"],
      [method |-> "GET", path |-> <<":jobId">>, gate |-> None,
       handler |-> "getJob"],
      [method |-> "POST", path |-> <<":jobId", "apply">>, gate |-> "APPLICANT",
       handler |-> "apply"],
      [method |-> "POST", path |-> <<":jobId", "save">>, gate |-> "APPLICANT",
       handler |-> "save"],
      [method |-> "DELETE", path |-> <<":jobId", "unsave">>, gate |-> "APPLICANT",
       handler |-> "unsave"],
      [method |-> "GET", path |-> <<"saved">>, gate |-> "APPLICANT",
       handler |-> "getSaved"]>>

\* GET /jobs/:jobId up to the lookup; the route has no middleware, so
\* req.user is never set and the applied/hidden lookups never run
ReceiveGetJob(s, token, method, path) ==
    /\ reqs[s].pc = "idle"
    /\ reqs' = [reqs EXCEPT ![s] =
            [Idle EXCEPT !.kind = "getJob", !.token = token, !.handler = TRUE,
                         !.pc = "findJob", !.jobId = path[1],
                         !.method = method, !.path = path]]
    /\ UNCHANGED <<jwtSecret, store>>

\* prisma.job.findUnique and the answer; Job.id is a UUID column, and an id
\* that is no UUID makes the query fail
GetJobFind(s) ==
    /\ reqs[s].kind = "getJob" /\ reqs[s].pc = "findJob"
    /\ reqs' = [reqs EXCEPT ![s] =
            IF reqs[s].jobId \notin JobIds
            THEN ReplyError(@, 500, "Error fetching the job", "invalid id")
            ELSE IF ~JobExists(reqs[s].jobId)
            THEN Reply(@, 404, "Job not found")
            ELSE [Reply(@, 200, "Job fetched successfully")
                    EXCEPT !.result = <<reqs[s].jobId>>]]
    /\ UNCHANGED <<jwtSecret, store>>

\* GET /jobs/saved up to the first query; a missing applicantId is logged
\* and the handler goes on
ReceiveGetSaved(s, token, method, path, q) ==
    /\ reqs[s].pc = "idle"
    /\ LET r0 == [Idle EXCEPT !.kind = "getSaved", !.gate = "APPLICANT",
                              !.token = token, !.method = method, !.path = path]
           r1 == Gated(r0, roleMiddleware("APPLICANT", token, jwtSecret))
           page == OrDefault(ParseIntAutoParam(q.page), 1)
           limit == OrDefault(ParseIntAutoParam(q.limit), 10)
       IN reqs' = [reqs EXCEPT ![s] =
            IF ~r1.handler THEN r1
            ELSE [r1 EXCEPT !.pc = "count", !.query = q,
                            !.args = [NoArgs EXCEPT !.page = page, !.limit = limit,
                                        !.skip = Num((page.v - 1) * limit.v)]]]
    /\ UNCHANGED <<jwtSecret, store>>

\* the rows where: { applicantId } selects; an undefined applicantId is no
\* condition to the store client
SavedJobsFor(applicantId) ==
    {v \in savedJobs : applicantId = None \/ v.applicantId = applicantId}

GetSavedCount(s) ==
    /\ reqs[s].kind = "getSaved" /\ reqs[s].pc = "count"
    /\ reqs' = [reqs EXCEPT ![s] =
            [@ EXCEPT !.pc = "findMany",
                      !.total = Cardinality(SavedJobsFor(reqs[s].user.userId))]]
    /\ UNCHANGED <<jwtSecret, store>>

\* findMany with skip and take, newest first; a negative skip makes the
\* query fail
GetSavedFindMany(s) ==
    /\ reqs[s].kind = "getSaved" /\ reqs[s].pc = "findMany"
    /\ reqs[s].args.limit.v >= 0
    /\ LET all == NewestFirst(SavedJobsFor(reqs[s].user.userId))
           skip == reqs[s].args.skip.v
           last == IF skip + reqs[s].args.limit.v <= Len(all)
                   THEN skip + reqs[s].args.limit.v ELSE Len(all)
       IN reqs' = [reqs EXCEPT ![s] =
            IF skip < 0
            THEN ReplyError(@, 500, "Internal server error", "invalid argument")
            ELSE [Reply(@, 200, "Saved jobs fetched successfully")
                    EXCEPT !.result = SubSeq(all, skip + 1, last)]]
    /\ UNCHANGED <<jwtSecret, store>>

\* a request to /jobs: the first matching route takes it.  The handlers of
\* GET /me, GET /:jobId/dashboard and GET /:jobId/applications are followed
\* up to their role gate
ReceiveJobsRequest(routes, s, token, method, path, data) ==
    LET i == Dispatch(routes, method, path)
        handler == IF i = 0 THEN None ELSE routes[i].handler
    IN CASE handler = "createJob" -> ReceiveCreateJob(s, token, data, NoCtc, "c1")
         [] handler = "patchJob" -> ReceivePatchJob(s, token, path[1], data, NoCtc)
         [] handler = "deleteJob" -> ReceiveDeleteJob(s, token, path[1])
         [] handler = "getJobs" -> ReceiveGetJobs(s, token, NoQuery, FALSE)
         [] handler = "getJob" -> ReceiveGetJob(s, token, method, path)
         [] handler = "apply" -> ReceiveApply(s, token, path[1], TRUE)
         [] handler = "save" -> ReceiveSave(s, token, path[1])
         [] handler = "unsave" -> ReceiveUnsave(s, token, path[1])
         [] handler = "getSaved" ->
                ReceiveGetSaved(s, token, method, path, NoQuery)
         [] handler \in {"getMyJobs", "getDashboard", "getJobApplications"} ->
                ReceiveRoleGated(s, "RECRUITER", token)
         [] OTHER ->
                /\ reqs[s].pc = "idle"
                /\ reqs' = [reqs EXCEPT ![s] =
                        Reply([Idle EXCEPT !.kind = "notFound", !.token = token,
                                           !.method = method, !.path = path],
                              404, None)]
                /\ UNCHANGED <<jwtSecret, store>>

\* ---------------------------------------- POST /auth/signup, /auth/signin
MailA == <<"a", "@", "x">>

MailB == <<"b", "@", "x">>

MailC == <<"c", "@", "x">>

MailD == <<"d", "@", "x">>

NotMail == <<"a", "x">>

Password1 == <<"p", "a", "s", "s", "w", "o", "r", "d">>

Password2 == <<"p", "a", "s", "s", "w", "o", "r", "D">>

ShortPassword == <<"p", "a", "s", "s">>

\* zod.email(): a local part, an @ and a domain
IsEmail(t) ==
    \E i \in 2..(Len(t) - 1) :
        /\ t[i] = "@"
        /\ \A k \in 1..Len(t) : k # i => t[k] # "@"

\* bcrypt.hash and bcrypt.compare, with the salt left out
Hash(password) == <<"$">> \o password

Compare(password, hash) == hash = Hash(password)

UserRow(id, email, role, password, lastLogin) ==
    [id |-> id, email |-> email, role |-> role, password |-> password,
     lastLogin |-> lastLogin]

UsersByEmail(email) == {u \in users : u.email = email}

\* signupBody with its refinement
signupBodyNoRefine(b) ==
    /\ IsEmail(b.email)
    /\ b.role \in Roles
    /\ Len(b.password) >= 8
    /\ Len(b.confirmPassword) >= 8

signupBody(b) ==
    /\ IsEmail(b.email)
    /\ b.role \in Roles
    /\ Len(b.password) >= 8
    /\ Len(b.confirmPassword) >= 8
    /\ b.password = b.confirmPassword

signinBody(b) == IsEmail(b.email) /\ Len(b.password) >= 8

\* loginLimiter: limited says that the caller's address used up its window
Limited(r) == Reply(r, 429, "Too many login/signup attempts. Try again in 10 minutes.")

ReceiveSignup(s, b, limited) ==
    /\ reqs[s].pc = "idle"
    /\ LET r0 == [Idle EXCEPT !.kind = "signup", !.auth = b]
       IN reqs' = [reqs EXCEPT ![s] =
            IF limited THEN Limited(r0)
            ELSE IF ~signupBody(b) THEN Reply(r0, 400, "Incorrect inputs")
            ELSE [r0 EXCEPT !.handler = TRUE, !.pc = "findUser"]]
    /\ UNCHANGED <<jwtSecret, store>>

SignupFindExisting(s) ==
    /\ reqs[s].kind = "signup" /\ reqs[s].pc = "findUser"
    /\ reqs' = [reqs EXCEPT ![s] =
            IF UsersByEmail(reqs[s].auth.email) # {}
            THEN Reply(@, 409, "Email already exists")
            ELSE [@ EXCEPT !.pc = "hash"]]
    /\ UNCHANGED <<jwtSecret, store>>

SignupHash(s) ==
    /\ reqs[s].kind = "signup" /\ reqs[s].pc = "hash"
    /\ reqs' = [reqs EXCEPT ![s] =
            [@ EXCEPT !.pc = "create", !.found.password = Hash(reqs[s].auth.password)]]
    /\ UNCHANGED <<jwtSecret, store>>

\* the ids of User rows in the order in which new rows take them
UserIdOrder == <<"u1", "u2", "u3", "u4">>

UserIds == {UserIdOrder[i] : i \in 1..Len(UserIdOrder)}

IdInUse(id) == \E u \in users : u.id = id

HasFreeUserId == \E i \in 1..Len(UserIdOrder) : ~IdInUse(UserIdOrder[i])

NewUserId ==
    LET i == CHOOSE k \in 1..Len(UserIdOrder) :
                /\ ~IdInUse(UserIdOrder[k])
                /\ \A m \in 1..(k - 1) : IdInUse(UserIdOrder[m])
    IN UserIdOrder[i]

\* User_email_key
UserInsertAllowed(email) == UsersByEmail(email) = {}

\* the token signup signs: the new row's id and the role of the body
SignupToken(user, role) == Token("valid", user.id, role)

\* prisma.user.create and what follows it without a further await
SignupCreate(s) ==
    /\ reqs[s].kind = "signup" /\ reqs[s].pc = "create"
    /\ HasFreeUserId \/ ~UserInsertAllowed(reqs[s].auth.email)
    /\ IF UserInsertAllowed(reqs[s].auth.email)
       THEN LET user == UserRow(NewUserId, reqs[s].auth.email, reqs[s].auth.role,
                                reqs[s].found.password, "never")
            IN /\ users' = users \cup {user}
               /\ reqs' = [reqs EXCEPT ![s] =
                    IF ~jwtSecret
                    THEN [ReplyError(@, 500, "Error creating user",
                                     "JWT_SECRET not defined")
                            EXCEPT !.wrote = TRUE, !.found.id = user.id]
                    ELSE [Reply(@, 201, "User created successfully")
                            EXCEPT !.wrote = TRUE, !.found.id = user.id,
                                   !.cookie = SignupToken(user, reqs[s].auth.role)]]
       ELSE /\ reqs' = [reqs EXCEPT ![s] =
                    ReplyError(@, 500, "Error creating user", "unique constraint")]
            /\ UNCHANGED users
    /\ UNCHANGED <<jwtSecret, hiddenJobs, applicants, jobs, applications,
                   savedJobs, idSeq>>

ReceiveSignin(s, b, limited) ==
    /\ reqs[s].pc = "idle"
    /\ LET r0 == [Idle EXCEPT !.kind = "signin", !.auth = b]
       IN reqs' = [reqs EXCEPT ![s] =
            IF limited THEN Limited(r0)
            ELSE IF ~signinBody(b) THEN Reply(r0, 400, "Incorrect inputs")
            ELSE [r0 EXCEPT !.handler = TRUE, !.pc = "findUser"]]
    /\ UNCHANGED <<jwtSecret, store>>

SigninFind(s) ==
    /\ reqs[s].kind = "signin" /\ reqs[s].pc = "findUser"
    /\ reqs' = [reqs EXCEPT ![s] =
            IF UsersByEmail(reqs[s].auth.email) = {}
            THEN Reply(@, 404, "User not found")
            ELSE LET user == CHOOSE u \in UsersByEmail(reqs[s].auth.email) : TRUE
                 IN IF user.password = <<>>
                    THEN ReplyError(@, 500, "Error signing user",
                                    "Password login not supported for this user.")
                    ELSE [@ EXCEPT !.pc = "compare",
                                   !.found = [id |-> user.id, role |-> user.role,
                                              password |-> user.password]]]
    /\ UNCHANGED <<jwtSecret, store>>

SigninCompare(s) ==
    /\ reqs[s].kind = "signin" /\ reqs[s].pc = "compare"
    /\ reqs' = [reqs EXCEPT ![s] =
            IF ~Compare(reqs[s].auth.password, reqs[s].found.password)
            THEN Reply(@, 401, "Incorrect password")
            ELSE IF ~jwtSecret
            THEN ReplyError(@, 500, "Error signing user", "JWT_SECRET not defined")
            ELSE [@ EXCEPT !.pc = "update"]]
    /\ UNCHANGED <<jwtSecret, store>>

\* the token signin signs: the id and role of the row it read
SigninTokenDefaultRole(found) == Token("valid", found.id, "APPLICANT")

SigninToken(found) == Token("valid", found.id, found.role)

\* prisma.user.update of lastLogin, the cookie and the answer
SigninUpdate(s) ==
    /\ reqs[s].kind = "signin" /\ reqs[s].pc = "update"
    /\ IF IdInUse(reqs[s].found.id)
       THEN /\ users' = {IF u.id = reqs[s].found.id
                         THEN [u EXCEPT !.lastLogin = "set"] ELSE u : u \in users}
            /\ reqs' = [reqs EXCEPT ![s] =
                    [Reply(@, 200, "User signed in successfully")
                        EXCEPT !.wrote = TRUE, !.cookie = SigninToken(reqs[s].found)]]
       ELSE /\ reqs' = [reqs EXCEPT ![s] =
                    ReplyError(@, 500, "Error signing user", "not found")]
            /\ UNCHANGED users
    /\ UNCHANGED <<jwtSecret, hiddenJobs, applicants, jobs, applications,
                   savedJobs, idSeq>>

\* ------------------------------------------------------ POST /auth/logout
\* the cookie the response of logout leaves with the client
ClearedCookie == [kind |-> "cleared", userId |-> None, role |-> None]

ReceiveLogoutRevoking(s, token) ==
    /\ reqs[s].pc = "idle"
    /\ LET r0 == [Idle EXCEPT !.kind = "logout", !.gate = "auth", !.token = token]
           r1 == Gated(r0, authMiddleware(token, jwtSecret))
       IN /\ reqs' = [reqs EXCEPT ![s] =
                IF ~r1.handler THEN r1
                ELSE [Reply(r1, 200, "User logout successfully")
                        EXCEPT !.cookie = ClearedCookie]]
          /\ jwtSecret' = (jwtSecret /\ ~r1.handler)
    /\ UNCHANGED store

\* the handler clears the client's cookie and answers; it reads and writes
\* nothing else
ReceiveLogout(s, token) ==
    /\ reqs[s].pc = "idle"
    /\ LET r0 == [Idle EXCEPT !.kind = "logout", !.gate = "auth", !.token = token]
           r1 == Gated(r0, authMiddleware(token, jwtSecret))
       IN reqs' = [reqs EXCEPT ![s] =
            IF ~r1.handler THEN r1
            ELSE [Reply(r1, 200, "User logout successfully")
                    EXCEPT !.cookie = ClearedCookie]]
    /\ UNCHANGED <<jwtSecret, store>>

\* ------------------------------------------------------------ initial states
SeedJobs == {JobRow("j1", "u1", "t0", Pune, 1), JobRow("j2", "u2", "t0", Delhi, 2)}

SeedHiddenJobs == {HiddenJobRow("u2", "j2")}

SeedApplicants == {"u1", "u2"}

SeedApplications == {ApplicationRow(1, "u2", "j1", "PENDING")}

SeedSavedJobs == {SavedJobRow(2, "u2", "j1")}

\* a recruiter, an applicant, and an applicant who has no password
SeedUsers ==
    {UserRow("u1", MailA, "RECRUITER", Hash(Password1), "never"),
     UserRow("u2", MailB, "APPLICANT", Hash(Password2), "never"),
     UserRow("u3", MailC, "APPLICANT", <<>>, "never")}

\* the store after two recruiters posted a job each, and applicant u2
\* applied to the first and saved it, and hid the second
InitStore ==
    /\ users = SeedUsers
    /\ applicants = SeedApplicants
    /\ jobs = SeedJobs
    /\ applications = SeedApplications
    /\ savedJobs = SeedSavedJobs
    /\ hiddenJobs = SeedHiddenJobs
    /\ idSeq = 2

InitMw ==
    /\ jwtSecret \in BOOLEAN
    /\ InitStore
    /\ reqs = [s \in Slots |-> Idle]

Init ==
    /\ jwtSecret = TRUE
    /\ InitStore
    /\ reqs = [s \in Slots |-> Idle]

\* --------------------------------------------------------- specifications
NextMw ==
    \E token \in Tokens :
        \/ \E role \in Roles : ReceiveRoleGated(1, role, token)
        \/ ReceiveAuthGated(1, token)

SpecMw == InitMw /\ [][NextMw]_vars

ApplyTokens ==
    {NoToken, Token("valid", "u1", "RECRUITER"), Token("valid", None, "APPLICANT")}
        \cup {Token("valid", u, "APPLICANT") : u \in Ids}

NextApply ==
    \E s \in Slots :
        \/ \E token \in ApplyTokens, jobId \in JobIds, bodyOk \in BOOLEAN :
                ReceiveApply(s, token, jobId, bodyOk)
        \/ ApplyFindApplicant(s)
        \/ ApplyFindJob(s)
        \/ ApplyFindExisting(s)
        \/ ApplyCreate(s)

SpecApply == Init /\ [][NextApply]_vars

SaveTokens ==
    {NoToken, Token("valid", "u1", "RECRUITER"), Token("valid", None, "APPLICANT"),
     Token("valid", "u1", "APPLICANT"), Token("valid", "u2", "APPLICANT")}

SaveJobIds == {"j1", "j3"}

NextSave ==
    \E s \in Slots :
        \/ \E token \in SaveTokens, jobId \in SaveJobIds : ReceiveSave(s, token, jobId)
        \/ SaveFindJob(s)
        \/ SaveFindSaved(s)
        \/ SaveCreate(s)
        \/ \E token \in SaveTokens, jobId \in SaveJobIds : ReceiveUnsave(s, token, jobId)
        \/ UnsaveFindJob(s)
        \/ UnsaveFindSaved(s)
        \/ UnsaveDelete(s)

SpecSave == Init /\ [][NextSave]_vars

RecruiterTokens ==
    {Token("valid", "u1", "RECRUITER"), Token("valid", "u2", "RECRUITER"),
     Token("valid", "u1", "APPLICANT")}

NextJob ==
    \E s \in Slots :
        \/ \E token \in RecruiterTokens, jobId \in JobIds, data \in {"invalid", "t1"} :
                ReceivePatchJob(s, token, jobId, data, NoCtc)
        \/ \E token \in RecruiterTokens, jobId \in JobIds :
                ReceivePutJob(s, token, jobId, "t1", NoCtc)
        \/ \E token \in RecruiterTokens, jobId \in JobIds :
                ReceiveDeleteJob(s, token, jobId)
        \/ PatchJobFind(s)
        \/ PutJobFind(s)
        \/ DeleteJobFind(s)
        \/ PatchJobUpdate(s)
        \/ PutJobUpdate(s)
        \/ DeleteJobDelete(s)

SpecJob == Init /\ [][NextJob]_vars

\* the compensation fields the job writes are tried with
CtcBodies ==
    {[ctcType |-> t, minCTC |-> lo, maxCTC |-> hi] :
        t \in {None, "RANGE", "COMPETITIVE"},
        lo \in {NoNum, Some(0 - 5), Some(10), Some(100)},
        hi \in {NoNum, Some(50)}}

CtcTokens ==
    {Token("valid", "u1", "RECRUITER"), Token("valid", "u3", "RECRUITER"),
     Token("valid", None, "RECRUITER")}

\* a write and the write that follows or overlaps it
CtcSlots == {1, 2}

NextCtc ==
    \E s \in CtcSlots :
        \/ \E token \in CtcTokens, ctc \in CtcBodies, companyId \in {"c1", "c2"} :
                ReceiveCreateJob(s, token, "t1", ctc, companyId)
        \/ CreateJobCreate(s)
        \/ \E token \in CtcTokens, jobId \in {"j1", "j3"}, ctc \in CtcBodies :
                ReceivePatchJob(s, token, jobId, None, ctc)
        \/ PatchJobFind(s)
        \/ PatchJobUpdate(s)

SpecCtc == Init /\ [][NextCtc]_vars

ApplicationIds == {1, 2}

NextStatus ==
    \E s \in Slots :
        \/ \E token \in RecruiterTokens, id \in ApplicationIds,
              data \in ApplicationStatus \cup {"invalid"} :
                ReceiveSetStatus(s, token, id, data)
        \/ SetStatusFind(s)
        \/ SetStatusUpdate(s)

SpecStatus == Init /\ [][NextStatus]_vars

\* apply requests and status updates together
LifecycleApplyTokens ==
    {Token("valid", "u1", "APPLICANT"), Token("valid", "u2", "APPLICANT"),
     Token("valid", "u3", "APPLICANT")}

LifecycleJobIds == {"j1", "j3"}

LifecycleApplicationIds == {1, 3}

NextLifecycle ==
    \E s \in Slots :
        \/ \E token \in LifecycleApplyTokens, jobId \in LifecycleJobIds :
                ReceiveApply(s, token, jobId, TRUE)
        \/ ApplyFindApplicant(s)
        \/ ApplyFindJob(s)
        \/ ApplyFindExisting(s)
        \/ ApplyCreate(s)
        \/ \E id \in LifecycleApplicationIds,
              data \in {"PENDING", "ACCEPTED", "invalid"} :
                ReceiveSetStatus(s, Token("valid", "u1", "RECRUITER"), id, data)
        \/ SetStatusFind(s)
        \/ SetStatusUpdate(s)

SpecLifecycle == Init /\ [][NextLifecycle]_vars

\* logout among requests to gated routes
LogoutTokens ==
    {NoToken, Token("valid", "u1", "RECRUITER"), Token("valid", "u2", "APPLICANT"),
     Token("expired", "u2", "APPLICANT"), Token("valid", None, "APPLICANT")}

NextLogout ==
    \E s \in Slots, token \in LogoutTokens :
        \/ ReceiveLogout(s, token)
        \/ ReceiveAuthGated(s, token)
        \/ \E role \in Roles : ReceiveRoleGated(s, role, token)

SpecLogout == InitMw /\ [][NextLogout]_vars

\* a signup or signin body
AuthBody(email, password, confirmPassword, role) ==
    [email |-> email, password |-> password, confirmPassword |-> confirmPassword,
     role |-> role]

\* signups with a new and with a taken email, and with each fault of the body
SignupBodies ==
    {AuthBody(e, Password1, Password1, r) : e \in {MailA, MailD}, r \in Roles}
        \cup {AuthBody(MailD, Password1, Password2, "APPLICANT"),
              AuthBody(MailD, ShortPassword, ShortPassword, "APPLICANT"),
              AuthBody(NotMail, Password1, Password1, "APPLICANT")}

\* signins with the right and the wrong password, of a user without password,
\* of an unknown email, and with each fault of the body
SigninBodies ==
    {AuthBody(MailA, Password1, <<>>, None), AuthBody(MailA, Password2, <<>>, None),
     AuthBody(MailB, Password2, <<>>, None), AuthBody(MailC, Password1, <<>>, None),
     AuthBody(MailD, Password1, <<>>, None), AuthBody(NotMail, Password1, <<>>, None),
     AuthBody(MailA, ShortPassword, <<>>, None)}

NextAuth ==
    \E s \in Slots :
        \/ \E b \in SignupBodies, limited \in BOOLEAN : ReceiveSignup(s, b, limited)
        \/ SignupFindExisting(s)
        \/ SignupHash(s)
        \/ SignupCreate(s)
        \/ \E b \in SigninBodies, limited \in BOOLEAN : ReceiveSignin(s, b, limited)
        \/ SigninFind(s)
        \/ SigninCompare(s)
        \/ SigninUpdate(s)

SpecAuth == InitMw /\ [][NextAuth]_vars

\* the searches explored: paging, sort order and the location filter vary
SearchPages == {Absent, Str(<<"0">>), Str(<<"2">>)}

SearchLimits == {Absent, Str(<<"1">>), Str(<<"1", "0", "0", "0">>)}

SearchLocations ==
    {Absent, Str(<<"p", "u", "n", "e">>),
     Str(<<"P", "U", ",", " ", "d", "e", "l", "h", "i", ",">>)}

SearchOrders == {Absent, Str(<<"O", "l", "d", "e", "s", "t">>)}

SearchTokens ==
    {NoToken, Token("valid", "u1", "APPLICANT"), Token("valid", "u2", "APPLICANT")}

\* searches only read the store, so one request at a time is followed
NextSearch ==
    \/ \E token \in SearchTokens, page \in SearchPages, limit \in SearchLimits,
          location \in SearchLocations, postedDate \in SearchOrders :
            ReceiveGetJobs(1, token,
                [NoQuery EXCEPT !.page = page, !.limit = limit,
                                !.location = location,
                                !.postedDate = postedDate], TRUE)
    \/ GetJobsFindMany(1)
    \/ GetJobsCount(1)

SpecSearch == Init /\ [][NextSearch]_vars

\* the page and limit parameters the paging is tried with
PagingPages ==
    {Absent, Str(<<"0">>), Str(<<"-", "3">>), Str(<<"2">>), Str(<<"a", "b", "c">>),
     Str(<<>>)}

PagingLimits ==
    {Absent, Str(<<"0">>), Str(<<"-", "1">>), Str(<<"1">>),
     Str(<<"1", "0", "0", "0">>), Str(<<"x">>)}

\* a location filter both seeded jobs pass
AnyLocation == Str(<<"e">>)

NextPaging ==
    \/ \E page \in PagingPages, limit \in PagingLimits, strict \in BOOLEAN :
            ReceiveGetJobs(1, NoToken,
                [NoQuery EXCEPT !.page = page, !.limit = limit,
                                !.location = AnyLocation], strict)
    \/ GetJobsFindMany(1)
    \/ GetJobsCount(1)

SpecPaging == Init /\ [][NextPaging]_vars

\* the experience band and the list filters the filtering is tried with
FilterMinExperience == {Absent, Str(<<"5">>), Str(<<"7">>), Str(<<"x">>)}

FilterMaxExperience == {Absent, Str(<<"1", "0">>), Str(<<"1">>), Str(<<"y">>)}

FilterLocations == {Absent, Str(<<" ", ",", " ">>), Str(<<"p", "u", "n", "e">>)}

FilterRoles == {Absent, Str(<<",">>), Str(<<"F", "E">>), Str(<<"B", "E">>)}

NextFilter ==
    \/ \E min \in FilterMinExperience, max \in FilterMaxExperience,
          location \in FilterLocations, roles \in FilterRoles :
            ReceiveGetJobs(1, NoToken,
                [NoQuery EXCEPT !.minExperience = min, !.maxExperience = max,
                                !.location = location, !.roles = roles], TRUE)
    \/ GetJobsFindMany(1)
    \/ GetJobsCount(1)

SpecFilter == Init /\ [][NextFilter]_vars

\* the writing handlers together, two requests at a time
CoreSlots == {1, 2}

CoreRecruiterTokens ==
    {NoToken, Token("valid", "u1", "RECRUITER"), Token("valid", "u2", "RECRUITER"),
     Token("valid", "u2", "APPLICANT")}

CoreApplicantTokens ==
    {NoToken, Token("valid", "u1", "APPLICANT"), Token("valid", "u3", "APPLICANT"),
     Token("valid", "u1", "RECRUITER")}

CoreJobIds == {"j1", "j3"}

CoreCtc == [ctcType |-> "RANGE", minCTC |-> Some(10), maxCTC |-> Some(50)]

NextCore ==
    \E s \in CoreSlots :
        \/ \E b \in {AuthBody(MailD, Password1, Password1, "APPLICANT"),
                     AuthBody(MailD, Password1, Password2, "APPLICANT"),
                     AuthBody(MailA, Password1, Password1, "APPLICANT")} :
                ReceiveSignup(s, b, FALSE)
        \/ SignupFindExisting(s)
        \/ SignupHash(s)
        \/ SignupCreate(s)
        \/ \E token \in CoreRecruiterTokens, data \in {"t1", "invalid"} :
                ReceiveCreateJob(s, token, data, CoreCtc, "c1")
        \/ CreateJobCreate(s)
        \/ \E token \in CoreRecruiterTokens, jobId \in CoreJobIds,
              data \in {"t1", "invalid"} :
                ReceivePatchJob(s, token, jobId, data, NoCtc)
        \/ PatchJobFind(s)
        \/ PatchJobUpdate(s)
        \/ \E token \in CoreRecruiterTokens, jobId \in CoreJobIds :
                ReceiveDeleteJob(s, token, jobId)
        \/ DeleteJobFind(s)
        \/ DeleteJobDelete(s)
        \/ \E token \in CoreApplicantTokens, jobId \in CoreJobIds, bodyOk \in BOOLEAN :
                ReceiveApply(s, token, jobId, bodyOk)
        \/ ApplyFindApplicant(s)
        \/ ApplyFindJob(s)
        \/ ApplyFindExisting(s)
        \/ ApplyCreate(s)
        \/ \E token \in CoreRecruiterTokens, id \in {1, 9},
              data \in {"ACCEPTED", "invalid"} :
                ReceiveSetStatus(s, token, id, data)
        \/ SetStatusFind(s)
        \/ SetStatusUpdate(s)
        \/ \E token \in CoreApplicantTokens \cup {Token("valid", "u2", "APPLICANT")},
              jobId \in CoreJobIds :
                \/ ReceiveSave(s, token, jobId)
                \/ ReceiveUnsave(s, token, jobId)
        \/ SaveFindJob(s)
        \/ SaveFindSaved(s)
        \/ SaveCreate(s)
        \/ UnsaveFindJob(s)
        \/ UnsaveFindSaved(s)
        \/ UnsaveDelete(s)

SpecCore == Init /\ [][NextCore]_vars

\* job deletes among applies, saves and unsaves
IntegrityJobIds == {"j1", "j2"}

IntegrityApplicantTokens ==
    {Token("valid", "u1", "APPLICANT"), Token("valid", "u2", "APPLICANT")}

NextIntegrity ==
    \E s \in Slots :
        \/ \E token \in {Token("valid", "u1", "RECRUITER"),
                         Token("valid", "u2", "RECRUITER")},
              jobId \in IntegrityJobIds :
                ReceiveDeleteJob(s, token, jobId)
        \/ DeleteJobFind(s)
        \/ DeleteJobDelete(s)
        \/ \E token \in IntegrityApplicantTokens, jobId \in IntegrityJobIds :
                \/ ReceiveApply(s, token, jobId, TRUE)
                \/ ReceiveSave(s, token, jobId)
                \/ ReceiveUnsave(s, token, jobId)
        \/ ApplyFindApplicant(s)
        \/ ApplyFindJob(s)
        \/ ApplyFindExisting(s)
        \/ ApplyCreate(s)
        \/ SaveFindJob(s)
        \/ SaveFindSaved(s)
        \/ SaveCreate(s)
        \/ UnsaveFindJob(s)
        \/ UnsaveFindSaved(s)
        \/ UnsaveDelete(s)

SpecIntegrity == Init /\ [][NextIntegrity]_vars

\* recruiters reading applications, among them one made meanwhile by u1, an
\* applicant without resume
ViewPaths == {<<"1">>, <<"3">>, <<"9">>, <<"1", "resume">>, <<"3", "resume">>}

NextView ==
    \E s \in Slots :
        \/ \E token \in {Token("valid", "u1", "APPLICANT"),
                         Token("valid", "u2", "APPLICANT")} :
                ReceiveApply(s, token, "j2", TRUE)
        \/ ApplyFindApplicant(s)
        \/ ApplyFindJob(s)
        \/ ApplyFindExisting(s)
        \/ ApplyCreate(s)
        \/ \E token \in {Token("valid", "u1", "RECRUITER"),
                         Token("valid", "u2", "RECRUITER")},
              path \in ViewPaths :
                ReceiveApplicationsRequest(ApplicationRoutes, s, token, "GET",
                    path, None, NoQuery, None)
        \/ GetApplicationFind(s)

SpecView == Init /\ [][NextView]_vars

\* the requests to /jobs that are tried
JobsRouteTokens ==
    {NoToken, Token("valid", "u2", "APPLICANT"), Token("expired", "u2", "APPLICANT"),
     Token("valid", "u1", "RECRUITER"), Token("valid", "u2", "RECRUITER"),
     Token("valid", None, "APPLICANT")}

JobsRoutePaths ==
    {<<"saved">>, <<"me">>, <<"j1">>, <<"j2">>, <<"j3">>, <<"j1", "unsave">>,
     <<"j2", "unsave">>, <<"j2", "dashboard">>, <<"j1", "saved">>}

\* one request at a time is followed; the steps of GET /jobs/saved are left
\* out, no request being dispatched to its handler
NextJobsRoute ==
    \/ \E token \in JobsRouteTokens, method \in {"GET", "DELETE"},
          path \in JobsRoutePaths :
            ReceiveJobsRequest(JobsRoutes, 1, token, method, path, None)
    \/ GetJobFind(1)
    \/ DeleteJobFind(1)
    \/ DeleteJobDelete(1)
    \/ UnsaveFindJob(1)
    \/ UnsaveFindSaved(1)
    \/ UnsaveDelete(1)

SpecJobsRoute == Init /\ [][NextJobsRoute]_vars

\* the requests to /applications that are tried
RouteTokens ==
    {NoToken, Token("valid", "u2", "APPLICANT"), Token("valid", "u1", "APPLICANT"),
     Token("expired", "u2", "APPLICANT"), Token("valid", "u1", "RECRUITER"),
     Token("valid", "u2", "RECRUITER"), Token("valid", None, "RECRUITER")}

RoutePaths ==
    {<<"me">>, <<"1">>, <<"9">>, <<"1", "resume">>, <<"1", "status">>,
     <<"me", "resume">>, <<"1", "me">>}

RoutePages == {Absent, Str(<<"2">>), Str(<<"-", "1">>)}

RouteLimits == {Absent, Str(<<"1">>)}

\* one request at a time is followed; the steps of GET /applications/me are
\* left out, no request being dispatched to its handler
NextRoute ==
    \/ \E token \in RouteTokens, method \in {"GET", "PATCH"}, path \in RoutePaths,
          data \in {"ACCEPTED", "invalid"}, page \in RoutePages,
          limit \in RouteLimits, statusRaw \in {None, "PENDING", "bogus"} :
            ReceiveApplicationsRequest(ApplicationRoutes, 1, token, method, path,
                data, [NoQuery EXCEPT !.page = page, !.limit = limit], statusRaw)
    \/ GetApplicationFind(1)
    \/ SetStatusFind(1)
    \/ SetStatusUpdate(1)

SpecRoute == Init /\ [][NextRoute]_vars

\* ---------------------------------------------------------------- claims
Verifies(token) == token.kind = "valid" /\ jwtSecret

\* the apply requests of applicant a for job j that went on to the store
ApplyRequests(a, j) ==
    {s \in Slots : /\ reqs[s].kind = "apply" /\ reqs[s].data = "valid"
                   /\ reqs[s].user.userId = a /\ reqs[s].jobId = j}

\* the step in which request s is answered
Answered(s) == reqs[s].pc # "done" /\ reqs'[s].pc = "done"

\* the step is one of request s, after it was received
StepOf(s, kind) == reqs[s].kind = kind /\ reqs'[s] # reqs[s]

SavedCount(a, j) == Cardinality(SavedJobsOf(a, j))

\* the step in which request s of the given route is received
Received(s, kind) == reqs[s].pc = "idle" /\ reqs'[s].kind = kind

\* C1: under every interleaving of concurrent apply requests there is at most
\* one Application row per (applicantId, jobId) in every reachable state, and
\* once two or more apply requests of an applicant with a profile for an
\* existing job have all been answered there is exactly one row for the pair.
C1_OneApplicationPerPair ==
    \A a \in Ids, j \in JobIds :
        /\ Cardinality(ApplicationsOf(a, j)) <= 1
        /\ ( /\ Cardinality(ApplyRequests(a, j)) >= 2
             /\ \A s \in ApplyRequests(a, j) : Done(s)
             /\ a \in applicants /\ JobExists(j) )
           => Cardinality(ApplicationsOf(a, j)) = 1

\* two apply requests for one pair were both past the existence check before
\* either inserted, and both have been answered
C1_Witness ==
    \E s, t \in Slots :
        /\ s # t
        /\ {s, t} \subseteq ApplyRequests("u1", "j1")
        /\ reqs[s].status = 201 /\ reqs[t].status = 500
        /\ Cardinality(ApplicationsOf("u1", "j1")) = 1

\* C2: of two concurrent apply requests for one pair, the one that does not
\* create the row is answered 409, in every interleaving.
C2_LoserGetsConflict ==
    \A s, t \in Slots :
        ( /\ s # t
          /\ \E a \in Ids, j \in JobIds : {s, t} \subseteq ApplyRequests(a, j)
          /\ Done(s) /\ Done(t)
          /\ reqs[s].status = 201 )
        => reqs[t].status = 409

\* C3: on a role-gated route a token that verifies but carries another role
\* is answered 403 without the handler being invoked, 403 is answered in no
\* other case, and a missing or unverifiable token is answered 401.
C3_RoleMismatchIs403 ==
    \A s \in Slots :
        (reqs[s].kind = "roleGated" /\ Done(s)) =>
            LET r == reqs[s]
                mismatch == Verifies(r.token) /\ r.token.role # r.gate
            IN /\ mismatch => (r.status = 403 /\ ~r.handler)
               /\ r.status = 403 => mismatch
               /\ ~Verifies(r.token) => (r.status = 401 /\ ~r.handler)

C3_Witness ==
    \E s \in Slots :
        /\ reqs[s].kind = "roleGated" /\ reqs[s].gate = "RECRUITER"
        /\ reqs[s].token = Token("valid", "u1", "APPLICANT")
        /\ reqs[s].status = 403 /\ ~reqs[s].handler

\* C4: the auth middleware invokes the handler exactly when the token
\* verifies and its payload has a userId, and then attaches the token's
\* userId and role; in every other case it answers 401.
C4_AuthGate ==
    \A s \in Slots :
        (reqs[s].kind = "authGated" /\ Done(s)) =>
            LET r == reqs[s]
                ok == Verifies(r.token) /\ r.token.userId # None
            IN /\ r.handler <=> ok
               /\ ok => r.user = [userId |-> r.token.userId, role |-> r.token.role]
               /\ ~ok => r.status = 401

C4_Witness ==
    \E s \in Slots :
        /\ reqs[s].kind = "authGated" /\ reqs[s].handler
        /\ reqs[s].user = [userId |-> "u2", role |-> "RECRUITER"]

\* the jobs applicant a has applied to or hidden
ExcludedFor(a) ==
    {j \in jobs : \/ \E x \in applications : x.jobId = j.id /\ x.applicantId = a
                  \/ \E h \in hiddenJobs : h.jobId = j.id /\ h.userId = a}

\* C5: a search answered to a caller with a valid APPLICANT token returns and
\* counts no job the applicant has applied to or hidden, and a search without
\* a token returns the jobs the other filters match.
C5_AppliedAndHiddenExcluded ==
    \A s \in Slots :
        (reqs[s].kind = "getJobs" /\ Done(s) /\ reqs[s].status = 200) =>
            LET r == reqs[s]
                matching == {j \in jobs : MatchesFilters(j, r.args.where)}
            IN /\ ( /\ Verifies(r.token) /\ r.token.role = "APPLICANT"
                    /\ r.token.userId # None )
                  => /\ \A i \in 1..Len(r.result) :
                            r.result[i] \notin {j.id : j \in ExcludedFor(r.token.userId)}
                     /\ r.total = Cardinality(matching \ ExcludedFor(r.token.userId))
               /\ r.token.kind = "absent" => r.total = Cardinality(matching)

JobWriteKinds == {"patchJob", "putJob", "deleteJob"}

\* C6: a Job row is changed or removed only by the step of an update or
\* delete request whose authenticated recruiter id is the job's recruiterId;
\* the request of another recruiter for an existing job is answered 403 and
\* leaves the Job table unchanged.
C6_OnlyOwnerWritesJob ==
    [][/\ \A j \in jobs \ jobs' :
            \E s \in Slots :
                /\ reqs'[s] # reqs[s]
                /\ reqs[s].kind \in JobWriteKinds
                /\ reqs[s].jobId = j.id
                /\ reqs[s].user = [userId |-> j.recruiterId, role |-> "RECRUITER"]
       /\ \A j \in jobs' \ jobs :
            \E i \in jobs \ jobs' : i.id = j.id /\ i.recruiterId = j.recruiterId
       /\ \A s \in Slots :
            ( /\ reqs'[s] # reqs[s]
              /\ reqs[s].kind \in JobWriteKinds
              /\ JobExists(reqs[s].jobId)
              /\ JobOf(reqs[s].jobId).recruiterId # reqs[s].user.userId )
            => /\ jobs' = jobs
               /\ Answered(s) /\ reqs'[s].status = 403]_vars

\* recruiter u1 was refused on the job of u2, which u2 then deleted
C6_Witness ==
    \E s, t \in Slots :
        /\ reqs[s].kind = "patchJob" /\ reqs[s].jobId = "j2"
        /\ reqs[s].user.userId = "u1" /\ reqs[s].status = 403
        /\ reqs[t].kind = "deleteJob" /\ reqs[t].jobId = "j2"
        /\ reqs[t].user.userId = "u2" /\ reqs[t].status = 200
        /\ ~JobExists("j2")

\* C7: a status update is answered 404 when the application is absent, 403
\* when the recruiter is not the recruiterId of the application's job, and
\* otherwise overwrites the status; an application's status changes only in
\* the step of a request of the recruiter who owns its job.
C7_StatusOnlyByOwner ==
    [][/\ \A s \in Slots :
            LET id == reqs[s].appId
                find == StepOf(s, "setStatus") /\ reqs[s].pc = "findApplication"
                update == StepOf(s, "setStatus") /\ reqs[s].pc = "update"
            IN /\ (find /\ ~ApplicationExists(id))
                    => (Answered(s) /\ reqs'[s].status = 404
                            /\ applications' = applications)
               /\ ( /\ find /\ ApplicationExists(id)
                    /\ JobOf(ApplicationOf(id).jobId).recruiterId
                            # reqs[s].user.userId )
                    => (Answered(s) /\ reqs'[s].status = 403
                            /\ applications' = applications)
               /\ ( /\ find /\ ApplicationExists(id)
                    /\ JobOf(ApplicationOf(id).jobId).recruiterId
                            = reqs[s].user.userId )
                    => reqs'[s].pc = "update"
               /\ (update /\ ApplicationExists(id))
                    => /\ Answered(s) /\ reqs'[s].status = 200
                       /\ \E a \in applications' :
                            a.id = id /\ a.status = reqs[s].data
       /\ \A a \in applications, b \in applications' :
            (a.id = b.id /\ a.status # b.status) =>
                \E s \in Slots :
                    /\ StepOf(s, "setStatus")
                    /\ reqs[s].appId = a.id
                    /\ reqs[s].user = [userId |-> JobOf(a.jobId).recruiterId,
                                       role |-> "RECRUITER"]]_vars

\* the owner u1 accepted application 1 and recruiter u2 was refused on it
C7_Witness ==
    \E s, t \in Slots :
        /\ reqs[s].kind = "setStatus" /\ reqs[s].appId = 1
        /\ reqs[s].user.userId = "u1" /\ reqs[s].status = 200
        /\ reqs[s].data = "ACCEPTED"
        /\ reqs[t].kind = "setStatus" /\ reqs[t].appId = 1
        /\ reqs[t].user.userId = "u2" /\ reqs[t].status = 403
        /\ ApplicationOf(1).status = "ACCEPTED"

\* C8: a save request that finds the applicant's SavedJob row for the job is
\* answered 409 and leaves exactly one row for the pair; in every reachable
\* state there is at most one SavedJob row per (applicantId, jobId).
C8_SecondSaveConflicts ==
    /\ [](\A a \in Ids, j \in JobIds : SavedCount(a, j) <= 1)
    /\ [][\A s \in Slots :
            LET a == reqs[s].user.userId
                j == reqs[s].jobId
            IN ( /\ StepOf(s, "save") /\ reqs[s].pc = "findSaved"
                 /\ SavedJobsOf(a, j) # {} )
               => /\ Answered(s) /\ reqs'[s].status = 409
                  /\ savedJobs' = savedJobs
                  /\ SavedCount(a, j) = 1]_vars

\* an applicant saved a job and was answered 409 on saving it again
C8_Witness ==
    \E s, t \in Slots :
        /\ reqs[s].kind = "save" /\ reqs[t].kind = "save"
        /\ reqs[s].user.userId = "u1" /\ reqs[t].user.userId = "u1"
        /\ reqs[s].jobId = "j1" /\ reqs[t].jobId = "j1"
        /\ reqs[s].status = 201 /\ reqs[t].status = 409
        /\ SavedCount("u1", "j1") = 1

\* C9: the losing request of two concurrent saves, or of two concurrent
\* unsaves, of one pair is answered 409 respectively 404 when its write hits
\* the unique constraint respectively the missing row, never 500.
C9_LoserNeverInternal ==
    \A s \in Slots :
        Done(s) =>
            /\ (reqs[s].kind = "save" /\ reqs[s].error = "constraint")
                    => reqs[s].status = 409
            /\ (reqs[s].kind = "unsave" /\ reqs[s].error = "not found")
                    => reqs[s].status = 404
            /\ reqs[s].kind \in {"save", "unsave"} => reqs[s].status # 500

\* C10: unsave answers 404 when the job or the applicant's row is absent and
\* otherwise deletes exactly the applicant's row for the job; a save answered
\* 409 and an unsave answered 404 leave the SavedJob table unchanged, so once
\* any number of saves only, or of unsaves only, of a pair have been answered
\* the pair has one row, respectively none.
C10_UnsaveAndRetries ==
    /\ [][\A s \in Slots :
            LET a == reqs[s].user.userId
                j == reqs[s].jobId
            IN /\ ( /\ StepOf(s, "unsave")
                    /\ \/ reqs[s].pc = "findJob" /\ ~JobExists(j)
                       \/ reqs[s].pc = "findSaved" /\ SavedJobsOf(a, j) = {} )
                  => (Answered(s) /\ reqs'[s].status = 404)
               /\ (StepOf(s, "unsave") /\ Answered(s) /\ reqs'[s].status = 404)
                  => savedJobs' = savedJobs
               /\ (StepOf(s, "save") /\ Answered(s) /\ reqs'[s].status = 409)
                  => savedJobs' = savedJobs
               /\ (StepOf(s, "unsave") /\ Answered(s) /\ reqs'[s].status = 200)
                  => /\ SavedCount(a, j) = 1
                     /\ savedJobs' = savedJobs \ SavedJobsOf(a, j)]_vars
    /\ [](\A a \in Ids, j \in JobIds :
            LET rs == {s \in Slots : /\ reqs[s].kind \in {"save", "unsave"}
                                     /\ reqs[s].pc \notin {"idle", "handler"}
                                     /\ reqs[s].user.userId = a
                                     /\ reqs[s].jobId = j}
            IN ( /\ rs # {} /\ \A s \in rs : Done(s)
                 /\ a \in applicants /\ JobExists(j)
                 /\ \A s \in Slots : reqs[s].kind \in {"idle", "save", "unsave"} )
               => /\ (\A s \in rs : reqs[s].kind = "save") => SavedCount(a, j) = 1
                  /\ (\A s \in rs : reqs[s].kind = "unsave") => SavedCount(a, j) = 0)

\* an unsave removed the row of u2 for j1 and its repetition was answered 404
C10_Witness ==
    \E s, t \in Slots :
        /\ reqs[s].kind = "unsave" /\ reqs[t].kind = "unsave"
        /\ reqs[s].user.userId = "u2" /\ reqs[t].user.userId = "u2"
        /\ reqs[s].jobId = "j1" /\ reqs[t].jobId = "j1"
        /\ reqs[s].status = 200 /\ reqs[t].status = 404
        /\ savedJobs = {}

\* C11: the token of a signin answered 200 carries the id and the stored role
\* of the User row with the email of the request, and the token of a signup
\* answered 201 carries the id and the role of the row that signup created.
C11_TokenCarriesStoredIdAndRole ==
    \A s \in Slots :
        /\ (reqs[s].kind = "signin" /\ reqs[s].status = 200)
            => /\ reqs[s].cookie.kind = "valid"
               /\ \A u \in UsersByEmail(reqs[s].auth.email) :
                    /\ reqs[s].cookie.userId = u.id
                    /\ reqs[s].cookie.role = u.role
               /\ UsersByEmail(reqs[s].auth.email) # {}
        /\ (reqs[s].kind = "signup" /\ reqs[s].status = 201)
            => /\ reqs[s].cookie.kind = "valid"
               /\ \E u \in users :
                    /\ u.id = reqs[s].found.id
                    /\ u.email = reqs[s].auth.email
                    /\ reqs[s].cookie.userId = u.id
                    /\ reqs[s].cookie.role = u.role

\* a recruiter signed up and then signed in with the same email
C11_Witness ==
    \E s, t \in Slots :
        /\ reqs[s].kind = "signup" /\ reqs[s].status = 201
        /\ reqs[s].auth.role = "RECRUITER"
        /\ reqs[t].kind = "signin" /\ reqs[t].status = 200
        /\ reqs[t].auth.email = reqs[s].auth.email
        /\ reqs[t].cookie = reqs[s].cookie

\* C12: a signup that passes the limiter with password different from
\* confirmPassword is answered 400 in the step that receives it, sets no
\* cookie and leaves the User table as it was.
C12_MismatchedPasswordsRejected ==
    /\ [][\A s \in Slots :
            ( /\ Received(s, "signup")
              /\ reqs'[s].auth.password # reqs'[s].auth.confirmPassword
              /\ reqs'[s].status # 429 )
            => /\ reqs'[s].pc = "done" /\ reqs'[s].status = 400
               /\ reqs'[s].cookie = NoToken
               /\ users' = users]_vars
    /\ [](\A s \in Slots :
            ( /\ reqs[s].kind = "signup"
              /\ reqs[s].auth.password # reqs[s].auth.confirmPassword )
            => /\ ~reqs[s].wrote
               /\ reqs[s].cookie = NoToken
               /\ \A u \in users :
                    \/ \E v \in SeedUsers : v.id = u.id
                    \/ \E t \in Slots \ {s} :
                            reqs[t].kind = "signup" /\ reqs[t].found.id = u.id)

\* a signup whose only fault is the differing confirmPassword was answered 400
C12_Witness ==
    \E s \in Slots :
        /\ reqs[s].kind = "signup" /\ reqs[s].status = 400
        /\ reqs[s].auth.email = MailD
        /\ reqs[s].auth.password = Password1
        /\ reqs[s].auth.confirmPassword = Password2
        /\ \A u \in users : \E v \in SeedUsers : v.id = u.id

\* C13: a signup that is not completed because a User with its email exists is
\* answered 409, whether the lookup or the insert meets the row, and there is
\* at most one User per email in every reachable state.
C13_DuplicateEmailIs409 ==
    /\ [](\A u, v \in users : u.email = v.email => u = v)
    /\ [][\A s \in Slots :
            ( /\ StepOf(s, "signup")
              /\ reqs[s].pc \in {"findUser", "create"}
              /\ UsersByEmail(reqs[s].auth.email) # {} )
            => Answered(s) /\ reqs'[s].status = 409]_vars

\* the body's compensation fields are a RANGE with minCTC above maxCTC
RangeInverted(ctc) ==
    /\ ctc.ctcType = "RANGE"
    /\ ctc.minCTC.has /\ ctc.maxCTC.has
    /\ ctc.minCTC.v > ctc.maxCTC.v

\* C14: in every state reachable by accepted job creates and updates, every
\* stored Job whose ctcType is RANGE has minCTC <= maxCTC.
C14_StoredRangeOrdered ==
    \A j \in jobs :
        (j.ctcType = "RANGE" /\ j.minCTC.has /\ j.maxCTC.has)
            => j.minCTC.v <= j.maxCTC.v

\* C15: a job create or update that the role gate admits with a userId and
\* whose body has ctcType RANGE and minCTC > maxCTC is answered 400 in the
\* step that receives it, and the Job table stays as it was.
C15_InvertedRangeRejected ==
    /\ [][\A s \in Slots :
            ( /\ Received(s, "createJob") \/ Received(s, "patchJob")
              /\ reqs'[s].handler /\ reqs'[s].user.userId # None
              /\ RangeInverted(reqs'[s].ctc) )
            => /\ reqs'[s].pc = "done" /\ reqs'[s].status = 400
               /\ jobs' = jobs]_vars
    /\ [](\A s \in Slots :
            (reqs[s].kind \in {"createJob", "patchJob"} /\ RangeInverted(reqs[s].ctc))
                => ~reqs[s].wrote)

\* the owner's update of job j1 to the range 100..50 was answered 400 and the
\* row kept its range
C15_Witness ==
    \E s \in Slots :
        /\ reqs[s].kind = "patchJob" /\ reqs[s].jobId = "j1"
        /\ reqs[s].user.userId = "u1"
        /\ reqs[s].ctc = [ctcType |-> "RANGE", minCTC |-> Some(100), maxCTC |-> Some(50)]
        /\ reqs[s].status = 400
        /\ JobOf("j1").minCTC = Some(10) /\ JobOf("j1").maxCTC = Some(20)

\* the number a page or limit parameter stands for, with the default for a
\* parameter that is absent
PagingValue(param, default) ==
    IF param.kind = "absent" THEN Num(default) ELSE ParseIntParam(param)

\* C16: for integer page and limit the page used is max(page, 1), the limit
\* used is min(max(limit, 1), 100) and the skip is (page - 1) * limit >= 0; a
\* limit of 1000 gives 100, a limit or page of 0 or below gives 1; the answer
\* carries no more rows than the limit.
C16_PagingClamped ==
    \A s \in Slots :
        LET q == reqs[s].query
            a == reqs[s].args
            page == PagingValue(q.page, 1)
            limit == PagingValue(q.limit, 25)
        IN (reqs[s].kind = "getJobs" /\ ~page.nan /\ ~limit.nan)
            => /\ ~a.page.nan /\ ~a.limit.nan /\ ~a.skip.nan
               /\ a.page.v = IF page.v >= 1 THEN page.v ELSE 1
               /\ a.limit.v = IF limit.v < 1 THEN 1
                              ELSE IF limit.v > 100 THEN 100 ELSE limit.v
               /\ a.skip.v = (a.page.v - 1) * a.limit.v
               /\ a.skip.v >= 0
               /\ q.limit = Str(<<"1", "0", "0", "0">>) => a.limit.v = 100
               /\ q.limit \in {Str(<<"0">>), Str(<<"-", "1">>)} => a.limit.v = 1
               /\ q.page \in {Str(<<"0">>), Str(<<"-", "3">>)} => a.page.v = 1
               /\ Done(s) => /\ reqs[s].status = 200
                             /\ Len(reqs[s].result) <= a.limit.v

\* a search with page=0 and limit=1000 was answered with page 1 and limit 100
C16_Witness ==
    /\ reqs[1].kind = "getJobs" /\ reqs[1].status = 200
    /\ reqs[1].query.page = Str(<<"0">>)
    /\ reqs[1].query.limit = Str(<<"1", "0", "0", "0">>)
    /\ reqs[1].args.page = Num(1) /\ reqs[1].args.limit = Num(100)
    /\ reqs[1].args.skip = Num(0)
    /\ Len(reqs[1].result) = 2

\* the parameter is present and parseInt makes no number of it
Unparseable(param) == param.kind # "absent" /\ ParseIntParam(param).nan

\* C17: a search whose page or limit is present but not parseable is answered
\* 200 with page 1 respectively limit 25 in place of the parameter, and the
\* limit used is within 1..100.
C17_MalformedPagingDefaults ==
    \A s \in Slots :
        LET q == reqs[s].query
            a == reqs[s].args
        IN ( /\ reqs[s].kind = "getJobs" /\ Done(s)
             /\ Unparseable(q.page) \/ Unparseable(q.limit) )
            => /\ reqs[s].status = 200
               /\ Unparseable(q.page) => a.page = Num(1)
               /\ Unparseable(q.limit) => a.limit = Num(25)
               /\ ~a.limit.nan /\ a.limit.v >= 1 /\ a.limit.v <= 100

\* a job's band lo..hi overlaps the band of the query
Overlaps(lo, hi, q) ==
    LET min == ParseIntAutoParam(q.minExperience)
        max == ParseIntAutoParam(q.maxExperience)
    IN /\ min.nan \/ hi >= min.v
       /\ max.nan \/ lo <= max.v

\* the experience bands a job may have
ExperienceYears == 0..12

\* C18: the experience conditions of the where clause accept a job exactly
\* when (minExperience is absent or unparseable or the job's maxExperience is
\* at least it) and (maxExperience is absent or unparseable or the job's
\* minExperience is at most it); a band 2..6 is accepted for the query 5..10
\* and rejected for 7..10, and no job outside the band is returned.
C18_ExperienceOverlap ==
    \A s \in Slots :
        LET q == reqs[s].query
            conds == reqs[s].args.where.AND
            Accepts(lo, hi) ==
                \A i \in 1..Len(conds) :
                    CondHolds([minExperience |-> lo, maxExperience |-> hi], conds[i])
        IN reqs[s].kind = "getJobs"
            => /\ \A lo, hi \in ExperienceYears :
                    lo <= hi => (Accepts(lo, hi) <=> Overlaps(lo, hi, q))
               /\ ( /\ q.minExperience = Str(<<"5">>)
                    /\ q.maxExperience = Str(<<"1", "0">>) ) => Accepts(2, 6)
               /\ ( /\ q.minExperience = Str(<<"7">>)
                    /\ q.maxExperience = Str(<<"1", "0">>) ) => ~Accepts(2, 6)
               /\ Done(s) =>
                    \A j \in jobs :
                        (\E i \in 1..Len(reqs[s].result) : reqs[s].result[i] = j.id)
                            => Overlaps(j.minExperience, j.maxExperience, q)

\* the search for the band 5..10 in Pune returned the job with the band 2..6
C18_Witness ==
    /\ reqs[1].kind = "getJobs" /\ reqs[1].status = 200
    /\ reqs[1].query.minExperience = Str(<<"5">>)
    /\ reqs[1].query.maxExperience = Str(<<"1", "0">>)
    /\ reqs[1].result = <<"j1">>
    /\ JobOf("j1").minExperience = 2 /\ JobOf("j1").maxExperience = 6

\* the where clause read with every absent or empty list filter taken as no
\* restriction
MatchesEmptyIsNoFilter(job, w) ==
    /\ w.role # <<>> => job.role \in Range(w.role)
    /\ w.skills # <<>> => job.skills \cap Range(w.skills) # {}
    /\ \A i \in 1..Len(w.AND) : CondHolds(job, w.AND[i])
    /\ w.company # <<>> => ContainsInsensitive(job.company, w.company)
    /\ w.jobType # <<>> => job.jobType \in Range(w.jobType)
    /\ w.OR # <<>> => \E i \in 1..Len(w.OR) : ContainsInsensitive(job.location, w.OR[i])
    /\ w.workMode # <<>> => job.workMode \in Range(w.workMode)
    /\ w.department # <<>> => job.department \in Range(w.department)
    /\ w.companyType # <<>> => job.companyType \in Range(w.companyType)

\* C19: a list filter that is absent or parses to the empty list adds no
\* restriction: the jobs a search counts are those the remaining filters
\* match, also when the search has no location parameter.
C19_EmptyListIsNoFilter ==
    \A s \in Slots :
        (reqs[s].kind = "getJobs" /\ Done(s))
            => /\ reqs[s].status = 200
               /\ reqs[s].total =
                    Cardinality({j \in jobs :
                        MatchesEmptyIsNoFilter(j, reqs[s].args.where)})

\* C20: GET /applications/me with a valid APPLICANT token is taken by the
\* applicant's handler and answered 200 with that applicant's applications,
\* not 403 by a recruiter route matching the path.
C20_MeReachesApplicantHandler ==
    \A s \in Slots :
        ( /\ reqs[s].method = "GET" /\ reqs[s].path = <<"me">>
          /\ reqs[s].token.kind = "valid" /\ reqs[s].token.role = "APPLICANT"
          /\ reqs[s].token.userId # None
          /\ Done(s) )
        => /\ reqs[s].kind = "getMyApplications"
           /\ reqs[s].status # 403
           /\ reqs[s].status = 200 =>
                \A i \in 1..Len(reqs[s].result) :
                    ApplicationOf(reqs[s].result[i]).applicantId = reqs[s].token.userId

\* C21: GET /jobs/saved is taken by the saved-jobs handler behind the
\* APPLICANT gate and not by GET /jobs/:jobId with "saved" as the job id;
\* without a valid APPLICANT token the path is never answered 200.
C21_SavedReachesSavedHandler ==
    \A s \in Slots :
        (reqs[s].method = "GET" /\ reqs[s].path = <<"saved">>)
        => /\ reqs[s].kind = "getSaved"
           /\ reqs[s].kind # "getJob"
           /\ (reqs[s].status = 200
                => (reqs[s].token.kind = "valid"
                    /\ reqs[s].token.role = "APPLICANT"))

\* C22: an apply request is answered 404 and creates no Application when the
\* job does not exist or the lookup of the caller's Applicant profile finds
\* none; a successful apply creates exactly one Application, with status
\* PENDING, and a status changes only in a successful status update.
C22_ApplyNotFoundAndPending ==
    /\ [](\A s \in Slots :
            ( /\ reqs[s].kind = "apply" /\ reqs[s].data = "valid" /\ Done(s)
              /\ (~JobExists(reqs[s].jobId)
                    \/ reqs[s].user.userId \notin applicants) )
            => (reqs[s].status = 404 /\ ~reqs[s].wrote))
    /\ [][/\ \A s \in Slots :
                /\ (StepOf(s, "apply") /\ Answered(s) /\ reqs'[s].status = 404)
                    => applications' = applications
                /\ (StepOf(s, "apply") /\ Answered(s) /\ reqs'[s].status = 201)
                    => /\ applications \subseteq applications'
                       /\ applications' \ applications =
                            {ApplicationRow(reqs'[s].appId, reqs[s].user.userId,
                                            reqs[s].jobId, "PENDING")}
          /\ \A a \in applications, b \in applications' :
                (a.id = b.id /\ a.status # b.status) =>
                    \E s \in Slots :
                        /\ StepOf(s, "setStatus") /\ Answered(s)
                        /\ reqs'[s].status = 200 /\ reqs[s].appId = a.id
                        /\ b.status = reqs[s].data]_vars

\* u1 applied to j1 and the application is PENDING, u3, who has no profile,
\* was answered 404, and an apply to the absent job j3 was answered 404
C22_Witness ==
    /\ \E s \in Slots :
        /\ reqs[s].kind = "apply" /\ reqs[s].status = 201
        /\ ApplicationExists(reqs[s].appId)
        /\ ApplicationOf(reqs[s].appId).status = "PENDING"
    /\ \E s \in Slots :
        /\ reqs[s].kind = "apply" /\ reqs[s].status = 404
        /\ (reqs[s].user.userId = "u3" \/ reqs[s].jobId = "j3")

\* the ways a token that is present fails jwt.verify
FailureKinds == {"malformed", "badsig", "expired"}

\* C23: the response of the auth and role middlewares to a token that fails
\* verification (status, message and error) is the one the same request would
\* get with the token failing for any other reason.
C23_VerificationFailuresAlike ==
    \A s \in Slots, k \in FailureKinds :
        ( /\ Done(s) /\ reqs[s].kind \in {"roleGated", "authGated"}
          /\ reqs[s].token.kind \in FailureKinds )
        => LET other == [reqs[s].token EXCEPT !.kind = k]
               mw == IF reqs[s].kind = "authGated"
                     THEN authMiddleware(other, jwtSecret)
                     ELSE roleMiddleware(reqs[s].gate, other, jwtSecret)
           IN <<reqs[s].status, reqs[s].message, reqs[s].error>>
                = <<mw.status, mw.message, mw.error>>

\* request t is a logout that was answered 200 with the given token
LoggedOut(t, token) ==
    reqs[t].kind = "logout" /\ reqs[t].status = 200 /\ reqs[t].token = token

\* C24: a logout writes nothing token verification depends on, and a request
\* received after a logout with the token that logged out passes the auth
\* middleware, and the role middleware of the token's role, as before.
C24_LogoutKeepsTokenValid ==
    [][\A s \in Slots :
        /\ Received(s, "logout") => UNCHANGED <<jwtSecret, store>>
        /\ ( /\ reqs[s].pc = "idle" /\ reqs'[s].pc # "idle"
             /\ \E t \in Slots : LoggedOut(t, reqs'[s].token) )
            => /\ reqs'[s].kind \in {"authGated", "logout"}
                    => (reqs'[s].handler /\ reqs'[s].status = 200)
               /\ ( /\ reqs'[s].kind = "roleGated"
                    /\ reqs'[s].gate = reqs'[s].token.role )
                    => (reqs'[s].handler /\ reqs'[s].status = 200)]_vars

\* after a logout with u2's token, a request with the same token was let
\* through by the role middleware
C24_Witness ==
    \E s, t \in Slots :
        /\ LoggedOut(t, Token("valid", "u2", "APPLICANT"))
        /\ reqs[t].cookie = ClearedCookie
        /\ reqs[s].kind = "roleGated" /\ reqs[s].token = reqs[t].token
        /\ reqs[s].handler /\ reqs[s].status = 200

\* signup, the job writes, apply, the status update, save and unsave
CoreKinds ==
    {"signup", "createJob", "patchJob", "deleteJob", "apply", "setStatus",
     "save", "unsave"}

RejectedStatuses == {400, 401, 403, 404}

\* C25: a request to a writing handler that is answered 400, 401, 403 or 404
\* has written nothing to the store: none of its steps changed the store.
C25_RejectedRequestsWriteNothing ==
    /\ [](\A s \in Slots :
            ( /\ reqs[s].kind \in CoreKinds /\ Done(s)
              /\ reqs[s].status \in RejectedStatuses )
            => ~reqs[s].wrote)
    /\ [][\A s \in Slots :
            (reqs'[s] # reqs[s] /\ reqs'[s].kind \in CoreKinds)
            => /\ store' # store => reqs'[s].wrote
               /\ reqs[s].wrote => reqs'[s].wrote
               /\ (Answered(s) /\ reqs'[s].status \in RejectedStatuses)
                    => store' = store]_vars

\* a status update was refused with 403 next to one that wrote
C25_Witness ==
    \E s, t \in Slots :
        /\ reqs[s].kind = "setStatus" /\ reqs[s].status = 403
        /\ reqs[t].kind \in CoreKinds /\ reqs[t].wrote
        /\ applications = SeedApplications

\* C26: the role middleware rejects with 401 a token that verifies and
\* carries the required role but no userId, so that a handler behind it is
\* never invoked with an undefined userId.
C26_RoleGateChecksSubject ==
    \A s \in Slots :
        (reqs[s].kind = "roleGated" /\ Done(s))
        => /\ ( /\ Verifies(reqs[s].token) /\ reqs[s].token.role = reqs[s].gate
                /\ reqs[s].token.userId = None )
                => (reqs[s].status = 401 /\ ~reqs[s].handler)
           /\ reqs[s].handler => reqs[s].user.userId # None

\* C27: the status update of the owning recruiter goes through for every
\* pair of current and new status among the five, and a target outside the
\* five is answered 400 with the status unchanged.
C27_AnyStatusToAnyStatus ==
    [][\A s \in Slots :
        LET id == reqs[s].appId
            owned == /\ ApplicationExists(id)
                     /\ JobOf(ApplicationOf(id).jobId).recruiterId
                            = reqs[s].user.userId
        IN /\ ( /\ Received(s, "setStatus") /\ reqs'[s].handler
                /\ reqs'[s].user.userId # None
                /\ reqs'[s].data \notin ApplicationStatus )
                => /\ reqs'[s].pc = "done" /\ reqs'[s].status = 400
                   /\ applications' = applications
           /\ \A current \in ApplicationStatus, new \in ApplicationStatus :
                ( /\ StepOf(s, "setStatus") /\ owned
                  /\ ApplicationOf(id).status = current /\ reqs[s].data = new )
                => /\ reqs[s].pc = "findApplication" => reqs'[s].pc = "update"
                   /\ reqs[s].pc = "update"
                        => /\ Answered(s) /\ reqs'[s].status = 200
                           /\ applications' = (applications \ {ApplicationOf(id)})
                                \cup {[ApplicationOf(id) EXCEPT !.status = new]}]_vars

\* application 1 was set to ACCEPTED by one request and back to PENDING by
\* the next
C27_Witness ==
    \E s, t \in Slots :
        /\ reqs[s].kind = "setStatus" /\ reqs[s].appId = 1
        /\ reqs[s].data = "ACCEPTED" /\ reqs[s].status = 200
        /\ reqs[t].kind = "setStatus" /\ reqs[t].appId = 1
        /\ reqs[t].data = "PENDING" /\ reqs[t].status = 200
        /\ ApplicationOf(1).status = "PENDING"

\* C28: a signup that is answered with a status other than 201 leaves the
\* User table as it was; with JWT_SECRET unset no User row is created.
C28_FailedSignupCreatesNoUser ==
    [][\A s \in Slots :
        ( /\ reqs'[s] # reqs[s] /\ reqs'[s].kind = "signup"
          /\ Answered(s) /\ reqs'[s].status # 201 )
        => users' = users]_vars

\* an Application or a SavedJob names the job
Referenced(jobId) ==
    \/ \E a \in applications : a.jobId = jobId
    \/ \E v \in savedJobs : v.jobId = jobId

\* C29: every Application and every SavedJob names a Job that exists; the
\* delete of a job that an Application or a SavedJob names is answered 500
\* and removes nothing, and a delete removes no row but the job's own.
C29_NoDanglingJobReference ==
    /\ [](\A jobId \in JobIds : Referenced(jobId) => JobExists(jobId))
    /\ [][\A s \in Slots :
            (StepOf(s, "deleteJob") /\ reqs[s].pc = "delete")
            => /\ Referenced(reqs[s].jobId)
                    => /\ reqs'[s].status = 500
                       /\ jobs' = jobs
               /\ jobs' \subseteq jobs
               /\ \A j \in jobs \ jobs' : j.id = reqs[s].jobId
               /\ UNCHANGED <<applications, savedJobs, users, applicants,
                              hiddenJobs>>]_vars

\* the delete of j1, which application 1 names, was answered 500 and j1 is
\* still there, while the delete of j2 went through
C29_Witness ==
    \E s, t \in Slots :
        /\ reqs[s].kind = "deleteJob" /\ reqs[s].jobId = "j1"
        /\ reqs[s].status = 500 /\ reqs[s].error = "constraint"
        /\ JobExists("j1") /\ ApplicationExists(1)
        /\ reqs[t].kind = "deleteJob" /\ reqs[t].jobId = "j2"
        /\ reqs[t].status = 200 /\ ~JobExists("j2")

\* C30: GET /applications/:id and GET /applications/:id/resume answer 404
\* for an absent application, then 403 for a recruiter who does not own the
\* application's job, and only then look at the resume: the recruiter who is
\* not the owner gets the same 403 with or without a resume on file, and
\* neither the application nor a redirect.
C30_OwnershipBeforeResume ==
    [][\A s \in Slots :
        LET id == reqs[s].appId
            owner == JobOf(ApplicationOf(id).jobId).recruiterId
                        = reqs[s].user.userId
            resume == ApplicationOf(id).applicantId \in SeedResumes
        IN ( /\ reqs[s].kind \in {"getApplication", "getResume"}
             /\ reqs[s].pc = "findApplication" /\ reqs'[s] # reqs[s]
             /\ id # 0 )
           => /\ Answered(s)
              /\ ~ApplicationExists(id)
                    => (reqs'[s].status = 404
                        /\ reqs'[s].message = "Application not found")
              /\ (ApplicationExists(id) /\ ~owner)
                    => /\ reqs'[s].status = 403
                       /\ reqs'[s].result = <<>>
                       /\ reqs'[s].message =
                            IF reqs[s].kind = "getResume" THEN "Forbidden"
                            ELSE "Forbidden: You can only view applications for your own jobs."
              /\ (ApplicationExists(id) /\ owner /\ reqs[s].kind = "getApplication")
                    => (reqs'[s].status = 200 /\ reqs'[s].result = <<id>>)
              /\ (ApplicationExists(id) /\ owner /\ reqs[s].kind = "getResume")
                    => reqs'[s].status = IF resume THEN 302 ELSE 404]_vars

\* recruiter u1, who does not own j2, asked for the resume of the application
\* u1 the applicant, without resume, made to j2, and was answered 403
C30_Witness ==
    \E s, t \in Slots :
        /\ reqs[s].kind = "apply" /\ reqs[s].status = 201 /\ reqs[s].appId = 3
        /\ ApplicationOf(3).applicantId \notin SeedResumes
        /\ reqs[t].kind = "getResume" /\ reqs[t].appId = 3
        /\ reqs[t].user.userId = "u1" /\ reqs[t].status = 403

====
